---- MODULE Spec2Model ----
(***************************************************************************)
(* Resource aggregation of MediOps: the normalization step of              *)
(* analyzeResourcePDF, the upload / delete / aggregated handlers of        *)
(* resourceRoutes.js and the Resource collection they share; the           *)
(* Allocation Ledger and its form, the polling loop of the Resources page  *)
(* and the frontend middleware.                                            *)
(*                                                                         *)
(* Names are sequences of one-character strings, so that toLowerCase()     *)
(* and trim() are computed and not assumed.  A JSON value of unknown shape *)
(* is a record with a kind tag k; the fields that do not apply to a kind   *)
(* hold a fixed filler, so that any two values of one sort compare.        *)
(***************************************************************************)
EXTENDS Integers, Sequences, FiniteSets, TLC

(* ----------------------------- bounds ---------------------------------- *)
\* records handed to one run of the merge loop (SpecAgg)
MaxAggRecs == 2
\* records ever created in the store (Spec)
MaxRecords == 2
\* upload requests that create a record in SpecReq
MaxUploads == 1

(* ------------------------------- state --------------------------------- *)
VARIABLES
  store,      \* the Resource collection: record id -> document
  files,      \* ids of the records whose uploaded file is on disk
  req,        \* the upload request that created each record: its position
  nextId,     \* the next record id; ids grow with createdAt
  lastSnap,   \* the last answer of GET /aggregated since the store changed,
              \* and whether the same user had asked right before it
  seen,       \* SpecReq: what the clients and the logs have seen: the request
              \* the last step served and the status code it answered, and
              \* the requests that hit a failure
  stockIn,    \* SpecStock: the inventory view handed to the stock check
  alerts,     \* SpecStock: the low stock items it answered
  aggIn,      \* SpecAgg: the resourceData list handed to the merge loop
  aggOut,     \* SpecAgg: the last run: its input order and its snapshot
  aggPrev,    \* SpecAgg: the run before it
  normIn,     \* SpecNorm: the parsed payload
  normOut,    \* SpecNorm: what normalization gave
  normStage,  \* SpecNorm: raw, normalized, stored or rejected
  listed,     \* SpecList: the last GET /resources query and its answer
  allocs,     \* SpecAlloc: the AllocationRecord collection, the stock checks
              \* triggered and the last answer of the ledger
  form,       \* SpecAlloc: the allocation form: its patient name, its loading
              \* flag, its last toast and the create request it has in flight
  poll,       \* SpecPoll: the Resources page during an upload: the uploading
              \* flag, the interval, its attempts and the fetches in flight
  mw          \* SpecMw: the last request the middleware saw and what it did

storeVars == <<store, files, req, nextId, lastSnap, seen>>
aggVars == <<aggIn, aggOut, aggPrev>>
normVars == <<normIn, normOut, normStage>>
stockVars == <<stockIn, alerts>>
clientVars == <<listed, allocs, form, poll, mw>>
\* the variables of the store, the merge loop, the normalization and the
\* stock check
coreVars == <<storeVars, aggVars, normVars, stockVars>>
vars ==
  <<store, files, req, nextId, lastSnap, seen, aggIn, aggOut, aggPrev,
    normIn, normOut, normStage, stockIn, alerts, listed, allocs, form, poll, mw>>

(* ----------------------------- strings --------------------------------- *)
\* String.prototype.toLowerCase on one character
LowerChar(c) == CASE c = "O" -> "o" [] c = "P" -> "p" [] c = "R" -> "r" [] OTHER -> c

ToLowerCase(s) == [i \in 1..Len(s) |-> LowerChar(s[i])]

RECURSIVE TrimStart(_)
TrimStart(s) == IF s # <<>> /\ Head(s) = " " THEN TrimStart(Tail(s)) ELSE s

RECURSIVE TrimEnd(_)
TrimEnd(s) ==
  IF s # <<>> /\ s[Len(s)] = " " THEN TrimEnd(SubSeq(s, 1, Len(s) - 1)) ELSE s

\* String.prototype.trim
Trim(s) == TrimEnd(TrimStart(s))

\* the key without the trim
NormKeyNoTrim(s) == ToLowerCase(s)

\* the join key of the inventory lists: name.toLowerCase().trim()
NormKey(s) == Trim(ToLowerCase(s))

(* ------------------------- untrusted values ---------------------------- *)
\* a scalar as the AI may return it: missing, null, a number, a non-numeric string
Undef == [k |-> "undef", n |-> 0]
Null == [k |-> "null", n |-> 0]
Num(i) == [k |-> "num", n |-> i]
Str == [k |-> "str", n |-> 0]

\* a name: missing, null, or a string
NoName == [k |-> "undef", s |-> <<>>]
NullName == [k |-> "null", s |-> <<>>]
Name(s) == [k |-> "str", s |-> s]

\* JavaScript truthiness of a name: a non-empty string
Truthy(nm) == nm.k = "str" /\ nm.s # <<>>

\* a list field: an array of items, or something that is not an array
Arr(items) == [k |-> "arr", items |-> items]
NotArr(kind) == [k |-> kind, items |-> <<>>]

Staff(nm, days) == [name |-> nm, available_days |-> days, time |-> "9-5"]
Item(nm, cnt) == [name |-> nm, count |-> cnt]

ScalarFields ==
  {"saline", "injections", "antibodies", "ot_rooms", "general_beds",
   "available_nurses_count", "ecg_machines", "ct_scan", "endoscopy",
   "bp_machines", "ultrasonography", "xray_machines"}

ListFields == {"medicines", "instruments", "other_equipment"}

AllScalars(v) == [f \in ScalarFields |-> v]

\* the inventory member of a payload: an object, or missing / null
Inv(sc, med, ins, oth) ==
  [k |-> "obj", scalars |-> sc, medicines |-> med, instruments |-> ins,
   other_equipment |-> oth]
NoInv(kind) ==
  [k |-> kind, scalars |-> AllScalars(Undef), medicines |-> NotArr("undef"),
   instruments |-> NotArr("undef"), other_equipment |-> NotArr("undef")]

\* what JSON.parse returned: an object with the three members, or null, a
\* number, a string, an array (none of which has the members)
Obj(doc, nur, inv) == [k |-> "obj", doctors |-> doc, nurses |-> nur, inventory |-> inv]
NonObj(kind) ==
  [k |-> kind, doctors |-> NotArr("undef"), nurses |-> NotArr("undef"),
   inventory |-> NoInv("undef")]

(* ------------------- analyzeResourcePDF: normalization ----------------- *)
IsArray(l) == l.k = "arr"

\* x ?? 0
NullishZero(x) == IF x.k \in {"undef", "null"} THEN Num(0) ELSE x

\* resourceData.inventory?.f for a scalar member f
OptScalar(inv, f) == IF inv.k \in {"undef", "null"} THEN Undef ELSE inv.scalars[f]

\* resourceData.inventory?.f for a list member f
OptList(inv, f) ==
  IF inv.k \in {"undef", "null"} THEN NotArr("undef")
  ELSE CASE f = "medicines" -> inv.medicines
         [] f = "instruments" -> inv.instruments
         [] OTHER -> inv.other_equipment

\* Array.isArray(x) ? x : []
ArrayOrEmpty(l) == IF IsArray(l) THEN l.items ELSE <<>>

EmptyData ==
  [doctors |-> <<>>, nurses |-> <<>>,
   inventory |-> [scalars |-> AllScalars(Num(0)), medicines |-> <<>>,
                  instruments |-> <<>>, other_equipment |-> <<>>]]

\* resourceData.inventory.saline without the optional chaining: the member
\* read also raises when inventory is missing or null
MemberReadThrowsNoChain(p) == p.k = "null" \/ p.inventory.k \in {"undef", "null"}

\* reading a member of null raises a TypeError; every other parsed value
\* (object, number, string, array) answers a member read, with undefined
\* where it has no such member
MemberReadThrows(p) == p.k = "null"

\* the normalizedData literal
NormalizedData(p) ==
  [doctors |-> ArrayOrEmpty(p.doctors),
   nurses |-> ArrayOrEmpty(p.nurses),
   inventory |->
     [scalars |-> [f \in ScalarFields |-> NullishZero(OptScalar(p.inventory, f))],
      medicines |-> ArrayOrEmpty(OptList(p.inventory, "medicines")),
      instruments |-> ArrayOrEmpty(OptList(p.inventory, "instruments")),
      other_equipment |-> ArrayOrEmpty(OptList(p.inventory, "other_equipment"))]]

\* the normalization step with the function's catch: a raise becomes
\* Error("Resource analysis failed: ...")
Normalize(p) ==
  IF MemberReadThrows(p) THEN [err |-> TRUE, data |-> EmptyData]
  ELSE [err |-> FALSE, data |-> NormalizedData(p)]

(* ------------------ Resource schema: cast of resourceData -------------- *)
\* The schema declares every scalar and every count as Number, with no
\* validator: a number of any sign is stored as it is, null stays null, and
\* a non-numeric string is a CastError.
\* a Number path given a non-numeric string
NumberCastFails(x) == x.k = "str"

ItemsCastFail(items) == \E i \in 1..Len(items) : NumberCastFails(items[i].count)

\* findByIdAndUpdate casts the update against the schema and rejects on a
\* CastError
CastFails(d) ==
  \/ \E f \in ScalarFields : NumberCastFails(d.inventory.scalars[f])
  \/ ItemsCastFail(d.inventory.medicines)
  \/ ItemsCastFail(d.inventory.instruments)
  \/ ItemsCastFail(d.inventory.other_equipment)

(* --------------- GET /resources/aggregated: the merge loop ------------- *)
\* x || 0 on a stored Number: a number stays, null and undefined give 0
OrZero(x) == IF x.k = "num" THEN x.n ELSE 0

\* the aggregate kept at module level: a request starts from the scalar
\* totals the previous one left
NewAggregateKept ==
  [doctors |-> <<>>, nurses |-> <<>>,
   doctorMap |-> {}, nurseMap |-> {},
   scalars |-> lastSnap.data.inventory.scalars,
   medicines |-> <<>>, instruments |-> <<>>, other_equipment |-> <<>>,
   medicineMap |-> <<>>, instrumentMap |-> <<>>, equipmentMap |-> <<>>]

\* const aggregated = {...} with the five Maps, created by each request.
\* A Map of the staff lists is the set of its keys; a Map of an inventory
\* list is the sequence of its keys, keys[i] being the key of list[i], the
\* object the Map holds for it.
NewAggregate ==
  [doctors |-> <<>>, nurses |-> <<>>,
   doctorMap |-> {}, nurseMap |-> {},
   scalars |-> [f \in ScalarFields |-> 0],
   medicines |-> <<>>, instruments |-> <<>>, other_equipment |-> <<>>,
   medicineMap |-> <<>>, instrumentMap |-> <<>>, equipmentMap |-> <<>>]

\* the staff merge without the has() test: a later entry of a name replaces
\* the entry the list holds for it
MergeStaffEntryOverwrite(acc, e) ==
  IF ~Truthy(e.name) THEN acc
  ELSE IF e.name.s \in acc.map
       THEN [list |-> [i \in 1..Len(acc.list) |->
                         IF acc.list[i].name.s = e.name.s THEN e ELSE acc.list[i]],
             map |-> acc.map]
       ELSE [list |-> Append(acc.list, e), map |-> acc.map \cup {e.name.s}]

\* if (doctor.name && !doctorMap.has(doctor.name)) { set; push }
MergeStaffEntry(acc, e) ==
  IF Truthy(e.name) /\ e.name.s \notin acc.map
  THEN [list |-> Append(acc.list, e), map |-> acc.map \cup {e.name.s}]
  ELSE acc

RECURSIVE MergeStaff(_, _)
MergeStaff(acc, items) ==
  IF items = <<>> THEN acc
  ELSE MergeStaff(MergeStaffEntry(acc, Head(items)), Tail(items))

\* the merge with = for +=: the last count of a name replaces the earlier ones
MergeCountedEntryAssign(acc, e) ==
  IF ~Truthy(e.name) THEN acc
  ELSE LET key == NormKey(e.name.s)
           hit == {i \in 1..Len(acc.keys) : acc.keys[i] = key}
       IN IF hit # {}
          THEN LET i == CHOOSE j \in hit : TRUE
               IN [acc EXCEPT !.list[i].count = OrZero(e.count)]
          ELSE [list |-> Append(acc.list, [name |-> e.name.s, count |-> OrZero(e.count)]),
                keys |-> Append(acc.keys, key)]

\* the inventory merge written like the staff merge: an entry of a name
\* the Map already has is dropped
MergeCountedEntryDropRepeat(acc, e) ==
  IF ~Truthy(e.name) THEN acc
  ELSE LET key == NormKey(e.name.s)
       IN IF \E i \in 1..Len(acc.keys) : acc.keys[i] = key
          THEN acc
          ELSE [list |-> Append(acc.list, [name |-> e.name.s, count |-> OrZero(e.count)]),
                keys |-> Append(acc.keys, key)]

\* if (med.name) { key = ...; if (map.has(key)) count += med.count || 0
\*                 else { newMed = {name, count: med.count || 0}; set; push } }
MergeCountedEntry(acc, e) ==
  IF ~Truthy(e.name) THEN acc
  ELSE LET key == NormKey(e.name.s)
           hit == {i \in 1..Len(acc.keys) : acc.keys[i] = key}
       IN IF hit # {}
          THEN LET i == CHOOSE j \in hit : TRUE
               IN [acc EXCEPT !.list[i].count = @ + OrZero(e.count)]
          ELSE [list |-> Append(acc.list, [name |-> e.name.s, count |-> OrZero(e.count)]),
                keys |-> Append(acc.keys, key)]

RECURSIVE MergeCounted(_, _)
MergeCounted(acc, items) ==
  IF items = <<>> THEN acc
  ELSE MergeCounted(MergeCountedEntry(acc, Head(items)), Tail(items))

\* the twelve sums with general_beds reading ot_rooms
SumScalarsMixed(sc, inv) ==
  [f \in ScalarFields |->
     sc[f] + OrZero(inv.scalars[IF f = "general_beds" THEN "ot_rooms" ELSE f])]

\* aggregated.inventory.f += inv.f || 0, the twelve of them
SumScalars(sc, inv) == [f \in ScalarFields |-> sc[f] + OrZero(inv.scalars[f])]

\* the three inventory Maps created inside the loop body: each record is
\* merged against empty Maps, so a name of an earlier record is pushed again
MergeResourceOwnMaps(agg, data) ==
  LET unkeyed(list) == [i \in 1..Len(list) |-> <<>>]
      doc == MergeStaff([list |-> agg.doctors, map |-> agg.doctorMap], data.doctors)
      nur == MergeStaff([list |-> agg.nurses, map |-> agg.nurseMap], data.nurses)
      med == MergeCounted([list |-> agg.medicines, keys |-> unkeyed(agg.medicines)],
                          data.inventory.medicines)
      ins == MergeCounted([list |-> agg.instruments, keys |-> unkeyed(agg.instruments)],
                          data.inventory.instruments)
      oth == MergeCounted([list |-> agg.other_equipment, keys |-> unkeyed(agg.other_equipment)],
                          data.inventory.other_equipment)
  IN [doctors |-> doc.list, nurses |-> nur.list,
      doctorMap |-> doc.map, nurseMap |-> nur.map,
      scalars |-> SumScalars(agg.scalars, data.inventory),
      medicines |-> med.list, instruments |-> ins.list, other_equipment |-> oth.list,
      medicineMap |-> med.keys, instrumentMap |-> ins.keys, equipmentMap |-> oth.keys]

\* the body of resources.forEach for one record's resourceData
MergeResource(agg, data) ==
  LET doc == MergeStaff([list |-> agg.doctors, map |-> agg.doctorMap], data.doctors)
      nur == MergeStaff([list |-> agg.nurses, map |-> agg.nurseMap], data.nurses)
      med == MergeCounted([list |-> agg.medicines, keys |-> agg.medicineMap],
                          data.inventory.medicines)
      ins == MergeCounted([list |-> agg.instruments, keys |-> agg.instrumentMap],
                          data.inventory.instruments)
      oth == MergeCounted([list |-> agg.other_equipment, keys |-> agg.equipmentMap],
                          data.inventory.other_equipment)
  IN [doctors |-> doc.list, nurses |-> nur.list,
      doctorMap |-> doc.map, nurseMap |-> nur.map,
      scalars |-> SumScalars(agg.scalars, data.inventory),
      medicines |-> med.list, instruments |-> ins.list, other_equipment |-> oth.list,
      medicineMap |-> med.keys, instrumentMap |-> ins.keys, equipmentMap |-> oth.keys]

RECURSIVE MergeAll(_, _)
MergeAll(agg, datas) ==
  IF datas = <<>> THEN agg
  ELSE MergeAll(MergeResource(agg, Head(datas)), Tail(datas))

\* the data part of the response: ...aggregated, without the Maps
Snapshot(agg) ==
  [doctors |-> agg.doctors, nurses |-> agg.nurses,
   inventory |-> [scalars |-> agg.scalars, medicines |-> agg.medicines,
                  instruments |-> agg.instruments,
                  other_equipment |-> agg.other_equipment]]

\* the merge of a list of records' resourceData, in the order given
Aggregate(datas) == Snapshot(MergeAll(NewAggregate, datas))

(* ------------------------ the payloads drawn as input ------------------ *)
Rao == <<"R", "a", "o">>
RaoVariant == <<" ", "r", "a", "o", " ">>
Paracetamol == <<"P", "a", "r", "a">>
ParacetamolLower == <<"p", "a", "r", "a">>
ParacetamolPadded == <<" ", "p", "a", "r", "a">>
Opa == <<"o", "p", "a">>
Blank == <<" ">>

\* every scalar member 0, every list member an empty array
ZeroInv == Inv(AllScalars(Num(0)), Arr(<<>>), Arr(<<>>), Arr(<<>>))

\* a different value in neighbouring scalar members
RampScalars ==
  [f \in ScalarFields |->
     CASE f \in {"saline", "ot_rooms", "ecg_machines", "bp_machines"} -> Num(3)
       [] f \in {"injections", "general_beds", "ct_scan", "ultrasonography"} -> Num(5)
       [] OTHER -> Num(1)]

StaffLists ==
  {<<Staff(Name(Rao), "Mon")>>,
   <<Staff(Name(RaoVariant), "Tue")>>,
   <<Staff(Name(Rao), "Tue")>>,
   <<Staff(Name(Rao), "Mon"), Staff(Name(Rao), "Tue")>>,
   <<Staff(Name(RaoVariant), "Mon"), Staff(Name(Rao), "Mon")>>,
   <<Staff(Name(<<>>), "Mon")>>,
   <<Staff(NoName, "Mon"), Staff(Name(Opa), "Tue")>>}

NurseLists ==
  {<<Staff(Name(Opa), "Mon")>>,
   <<Staff(Name(Opa), "Tue"), Staff(Name(Blank), "Tue")>>,
   <<Staff(NullName, "Mon"), Staff(Name(RaoVariant), "Mon")>>}

MedicineLists ==
  {<<Item(Name(Paracetamol), Num(10))>>,
   <<Item(Name(ParacetamolLower), Num(5))>>,
   <<Item(Name(ParacetamolPadded), Num(1)), Item(Name(Paracetamol), Num(2))>>,
   <<Item(Name(Paracetamol), Null)>>,
   <<Item(Name(Opa), Undef), Item(Name(Opa), Num(4))>>,
   <<Item(Name(<<>>), Num(3))>>,
   <<Item(Name(Blank), Num(2))>>,
   <<Item(NoName, Num(1)), Item(Name(Opa), Num(1))>>,
   <<Item(Name(Paracetamol), Str)>>}

OtherLists ==
  {<<Item(Name(Opa), Num(1))>>,
   <<Item(Name(<<"O">>), Num(2)), Item(Name(<<"o", " ">>), Num(3))>>}

ScalarPatterns ==
  {AllScalars(v) : v \in {Undef, Null, Str, Num(-1), Num(1), Num(2)}} \cup {RampScalars}

\* payloads that are not of the expected shape
ShapePayloads ==
  {NonObj(kd) : kd \in {"null", "num", "str", "arr"}}
  \cup {Obj(NotArr(d), NotArr(n), NoInv(i)) :
          d \in {"undef", "null", "str"}, n \in {"undef", "str"}, i \in {"undef", "null", "num"}}
  \cup {Obj(NotArr("str"), Arr(<<>>), Inv(AllScalars(Null), NotArr(m), Arr(<<>>), NotArr("null"))) :
          m \in {"undef", "null", "str"}}

\* payloads of the expected shape in which one member varies
MemberPayloads ==
  {Obj(Arr(l), Arr(<<>>), ZeroInv) : l \in StaffLists \cup {<<>>}}
  \cup {Obj(Arr(<<>>), Arr(l), ZeroInv) : l \in NurseLists}
  \cup {Obj(Arr(<<>>), Arr(<<>>), Inv(AllScalars(Num(0)), Arr(l), Arr(<<>>), Arr(<<>>))) :
          l \in MedicineLists}
  \cup {Obj(Arr(<<>>), Arr(<<>>), Inv(AllScalars(Num(0)), Arr(<<>>), Arr(l), Arr(<<>>))) :
          l \in OtherLists}
  \cup {Obj(Arr(<<>>), Arr(<<>>), Inv(AllScalars(Num(0)), Arr(<<>>), Arr(<<>>), Arr(l))) :
          l \in OtherLists}
  \cup {Obj(Arr(<<>>), Arr(<<>>), Inv(sc, Arr(<<>>), Arr(<<>>), Arr(<<>>))) :
          sc \in ScalarPatterns}

\* two reports of one ward, every member filled
ReportA ==
  Obj(Arr(<<Staff(Name(Rao), "Mon")>>), Arr(<<Staff(Name(Opa), "Mon")>>),
      Inv([AllScalars(Num(1)) EXCEPT !["general_beds"] = Num(3), !["saline"] = Null],
          Arr(<<Item(Name(Paracetamol), Num(10))>>),
          Arr(<<Item(Name(Opa), Num(1))>>), NotArr("str")))
ReportB ==
  Obj(Arr(<<Staff(Name(RaoVariant), "Tue")>>), NotArr("str"),
      Inv([AllScalars(Num(2)) EXCEPT !["general_beds"] = Num(5), !["ct_scan"] = Num(-1)],
          Arr(<<Item(Name(ParacetamolLower), Num(5)), Item(Name(<<>>), Num(3))>>),
          Arr(<<>>), Arr(<<Item(Name(Opa), Num(2))>>)))

RawPayloads == ShapePayloads \cup MemberPayloads \cup {ReportA, ReportB}

\* the resourceData a completed record can hold
StoredDatas ==
  {Normalize(p).data : p \in {q \in RawPayloads : ~Normalize(q).err /\ ~CastFails(Normalize(q).data)}}

RECURSIVE SeqsUpTo(_, _)
SeqsUpTo(S, n) ==
  IF n = 0 THEN {<<>>}
  ELSE LET shorter == SeqsUpTo(S, n - 1)
       IN shorter \cup {Append(q, x) : q \in {r \in shorter : Len(r) = n - 1}, x \in S}

(* ------------------------------ documents ------------------------------ *)
Users == {"u1", "u2"}
\* the user whose GET /aggregated answers are observed; the other one only
\* uploads and deletes
Readers == {"u1"}
\* SpecReq: the user who uploads; both users ask to delete. The handlers
\* treat every user alike
Uploaders == {"u1"}
Ids == 1..MaxRecords

\* a document right after new Resource(...).save(): the schema's defaults
NewDocData ==
  [doctors |-> <<>>, nurses |-> <<>>,
   inventory |-> [scalars |-> AllScalars(Undef), medicines |-> <<>>,
                  instruments |-> <<>>, other_equipment |-> <<>>]]

NoDoc ==
  [status |-> "none", userId |-> "", resourceData |-> NewDocData,
   metadata |-> FALSE, errorMessage |-> ""]

NoReq == [pc |-> "idle", data |-> NewDocData]

\* the literal with one of its zeros mistyped
EmptyResponseTypo ==
  [doctors |-> <<>>, nurses |-> <<>>,
   inventory |-> [scalars |-> [f \in ScalarFields |-> IF f = "ot_rooms" THEN 1 ELSE 0],
                  medicines |-> <<>>, instruments |-> <<>>, other_equipment |-> <<>>],
   resources |-> <<>>]

\* the literal answered when resources.length === 0
EmptyResponse ==
  [doctors |-> <<>>, nurses |-> <<>>,
   inventory |-> [scalars |-> [f \in ScalarFields |-> 0], medicines |-> <<>>,
                  instruments |-> <<>>, other_equipment |-> <<>>],
   resources |-> <<>>]

NoSnap == [user |-> "", repeated |-> FALSE, data |-> EmptyResponse]

NoAgg == [done |-> FALSE, input |-> <<>>, snap |-> Aggregate(<<>>)]

NoNorm == [err |-> FALSE, data |-> EmptyData]

\* nothing answered, nothing logged
NoSeen ==
  [op |-> "", user |-> "", id |-> 0, code |-> 0,
   failed |-> {}, unmarked |-> {}, kept |-> {}]

Exists(id) == store[id].status \in {"processing", "completed", "failed"}

\* the parsed payloads the upload requests of Spec receive
UploadPayloads ==
  {NonObj("null"), ReportA, ReportB,
   Obj(Arr(<<>>), Arr(<<>>), Inv(AllScalars(Str), Arr(<<>>), Arr(<<>>), Arr(<<>>)))}

StoreInit ==
  /\ store = [id \in Ids |-> NoDoc]
  /\ files = {}
  /\ req = [id \in Ids |-> NoReq]
  /\ nextId = 1
  /\ lastSnap = NoSnap
  /\ seen = NoSeen

AggIdle == aggIn = <<>> /\ aggOut = NoAgg /\ aggPrev = NoAgg
NormIdle == normIn = NonObj("null") /\ normOut = NoNorm /\ normStage = "raw"
\* no stock check asked yet
NoAlerts == [done |-> FALSE, items |-> {}]

StockIdle == stockIn = EmptyResponse.inventory /\ alerts = NoAlerts

\* no GET /resources asked yet
NoList ==
  [asked |-> FALSE, user |-> "", limit |-> 0, page |-> 0,
   out |-> [resources |-> <<>>,
            pagination |-> [total |-> 0, page |-> 0, limit |-> 0, pages |-> 0]]]

\* an empty ledger that has answered nothing
NoAllocs == [recs |-> <<>>, checks |-> 0, op |-> "", name |-> NoName, error |-> ""]

\* the form as it is mounted on a document without a patient name
NoForm == [name |-> NoName, loading |-> FALSE, toast |-> "", request |-> "none"]

\* the Resources page with no file chosen and no upload under way
NoPoll ==
  [selectedFile |-> FALSE, uploading |-> FALSE, upload |-> "none",
   interval |-> FALSE, attempts |-> 0, inFlight |-> 0, fetched |-> ""]

\* no request seen yet
NoMw == [asked |-> FALSE, dev |-> FALSE, path |-> <<>>, cookie |-> FALSE,
         out |-> "", location |-> <<>>, redirectUrl |-> <<>>]

\* no client has asked for anything
ClientIdle ==
  listed = NoList /\ allocs = NoAllocs /\ form = NoForm /\ poll = NoPoll /\ mw = NoMw

Init == StoreInit /\ AggIdle /\ NormIdle /\ StockIdle /\ ClientIdle

(* ------------------------ GET /resources/aggregated -------------------- *)
\* .sort({ createdAt: -1 }): newest first
RECURSIVE SortNewestFirst(_)
SortNewestFirst(S) ==
  IF S = {} THEN <<>>
  ELSE LET m == CHOOSE x \in S : \A y \in S : y <= x
       IN <<m>> \o SortNewestFirst(S \ {m})

\* the query without the status filter
FindAllOfUser(u, st) ==
  SortNewestFirst({id \in Ids : st[id].userId = u /\ st[id].status \in {"processing", "completed", "failed"}})

\* the query without the userId: the completed records of every user
FindCompletedAnyUser(u, st) ==
  SortNewestFirst({id \in Ids : st[id].status = "completed"})

\* Resource.find({ userId, processingStatus: 'completed' }).sort(...)
FindCompleted(u, st) ==
  SortNewestFirst({id \in Ids : st[id].userId = u /\ st[id].status = "completed"})

\* the data member of the answer of GET /aggregated for user u on store st
AggregatedData(u, st) ==
  LET resources == FindCompleted(u, st)
  IN IF Len(resources) = 0 THEN EmptyResponse
     ELSE LET snap == Aggregate([i \in 1..Len(resources) |-> st[resources[i]].resourceData])
          IN [doctors |-> snap.doctors, nurses |-> snap.nurses,
              inventory |-> snap.inventory, resources |-> resources]

\* the last answer is remembered until a document changes
SnapAfter(st) == IF st = store THEN lastSnap ELSE NoSnap

GetAggregated(u) ==
  /\ lastSnap' = [user |-> u,
                  repeated |-> lastSnap.user = u,
                  data |-> AggregatedData(u, store)]
  /\ UNCHANGED <<store, files, req, nextId>>
  /\ UNCHANGED aggVars /\ UNCHANGED normVars /\ UNCHANGED stockVars /\ UNCHANGED clientVars

(* ------------- GET /resources, /resources/latest, /resources/:id ------- *)
\* Resource.find({ userId }).sort({ createdAt: -1 })
FindOfUser(u, st) ==
  SortNewestFirst({id \in Ids : st[id].userId = u /\
                                 st[id].status \in {"processing", "completed", "failed"}})

\* a document as the answers carry it
DocView(id, st) == [id |-> id, doc |-> st[id]]

\* the answer of a read that found nothing
NotFound == [code |-> 404, id |-> 0, doc |-> NoDoc]

\* Math.ceil(total / limit), limit >= 1
Ceil(total, limit) == (total + limit - 1) \div limit

\* the list with .skip(page * limit): the first page is passed over
GetResourcesSkipPage(u, limit, page, st) ==
  LET all == FindOfUser(u, st)
      first == page * limit + 1
      last == IF (page + 1) * limit < Len(all) THEN (page + 1) * limit ELSE Len(all)
  IN [resources |-> [i \in 1..(IF last >= first THEN last - first + 1 ELSE 0) |->
                       DocView(all[first + i - 1], st)],
      pagination |-> [total |-> Len(all), page |-> page, limit |-> limit,
                      pages |-> Ceil(Len(all), limit)]]

\* GET /resources?limit=&page= : .limit(limit).skip((page - 1) * limit),
\* countDocuments({ userId })
GetResources(u, limit, page, st) ==
  LET all == FindOfUser(u, st)
      first == (page - 1) * limit + 1
      last == IF page * limit < Len(all) THEN page * limit ELSE Len(all)
  IN [resources |-> [i \in 1..(IF last >= first THEN last - first + 1 ELSE 0) |->
                       DocView(all[first + i - 1], st)],
      pagination |-> [total |-> Len(all), page |-> page, limit |-> limit,
                      pages |-> Ceil(Len(all), limit)]]

\* GET /resources/latest : findOne({ userId }).sort({ createdAt: -1 })
GetLatest(u, st) ==
  LET all == FindOfUser(u, st)
  IN IF Len(all) = 0 THEN NotFound
     ELSE [code |-> 200, id |-> all[1], doc |-> st[all[1]]]

\* findOne({ _id }) without the userId
GetOneAnyUser(u, id, st) ==
  IF st[id].status \in {"processing", "completed", "failed"}
  THEN [code |-> 200, id |-> id, doc |-> st[id]]
  ELSE NotFound

\* GET /resources/:id : findOne({ _id, userId })
GetOne(u, id, st) ==
  IF st[id].status \in {"processing", "completed", "failed"} /\ st[id].userId = u
  THEN [code |-> 200, id |-> id, doc |-> st[id]]
  ELSE NotFound

(* -------------------------- POST /resources/upload --------------------- *)
\* new Resource({... processingStatus: 'processing'}).save(); multer has
\* written the file before the handler runs
UploadCreate(u) ==
  /\ nextId <= MaxRecords
  /\ store' = [store EXCEPT ![nextId] =
                 [status |-> "processing", userId |-> u, resourceData |-> NewDocData,
                  metadata |-> FALSE, errorMessage |-> ""]]
  /\ files' = files \cup {nextId}
  /\ req' = [req EXCEPT ![nextId] = [pc |-> "process", data |-> NewDocData]]
  /\ nextId' = nextId + 1
  /\ lastSnap' = NoSnap
  /\ UNCHANGED aggVars /\ UNCHANGED normVars /\ UNCHANGED stockVars /\ UNCHANGED clientVars

\* processPDFWithGemini, the empty-text test and analyzeResourcePDF up to the
\* parsed payload raise: no file, no text, an AI error, no JSON in the answer
ProcessRaises(id) ==
  /\ req[id].pc = "process"
  /\ req' = [req EXCEPT ![id].pc = "markFailed"]
  /\ UNCHANGED <<store, files, nextId, lastSnap>>
  /\ UNCHANGED aggVars /\ UNCHANGED normVars /\ UNCHANGED stockVars /\ UNCHANGED clientVars

\* the file is read, the AI answers, the answer parses to p, p is normalized
ProcessParsed(id, p) ==
  /\ req[id].pc = "process"
  /\ id \in files
  /\ LET r == Normalize(p)
     IN req' = [req EXCEPT ![id] =
                  IF r.err THEN [pc |-> "markFailed", data |-> NewDocData]
                  ELSE [pc |-> "update", data |-> r.data]]
  /\ UNCHANGED <<store, files, nextId, lastSnap>>
  /\ UNCHANGED aggVars /\ UNCHANGED normVars /\ UNCHANGED stockVars /\ UNCHANGED clientVars

\* the update with { upsert: true }: a document that is gone is written anew
UpdateCompletedUpsert(id, dbError) ==
  /\ req[id].pc = "update"
  /\ IF dbError \/ CastFails(req[id].data)
     THEN /\ req' = [req EXCEPT ![id] = [pc |-> "markFailed", data |-> NewDocData]]
          /\ UNCHANGED <<store, lastSnap>>
     ELSE /\ req' = [req EXCEPT ![id] = [pc |-> "fetch", data |-> NewDocData]]
          /\ LET st == [store EXCEPT ![id].status = "completed",
                                     ![id].resourceData = req[id].data,
                                     ![id].metadata = TRUE]
             IN store' = st /\ lastSnap' = SnapAfter(st)
  /\ UNCHANGED <<files, nextId>>
  /\ UNCHANGED aggVars /\ UNCHANGED normVars /\ UNCHANGED stockVars /\ UNCHANGED clientVars

\* the update addressed by owner instead of by _id: findOneAndUpdate of the
\* newest record of the user who uploaded
UpdateCompletedNewest(id, dbError) ==
  /\ req[id].pc = "update"
  /\ IF dbError \/ CastFails(req[id].data)
     THEN /\ req' = [req EXCEPT ![id] = [pc |-> "markFailed", data |-> NewDocData]]
          /\ UNCHANGED <<store, lastSnap>>
     ELSE /\ req' = [req EXCEPT ![id] = [pc |-> "fetch", data |-> NewDocData]]
          /\ LET own == {t \in Ids : Exists(t) /\ Exists(id) /\ store[t].userId = store[id].userId}
                 st == IF own # {}
                       THEN LET t == CHOOSE x \in own : \A y \in own : y <= x
                            IN [store EXCEPT ![t].status = "completed",
                                             ![t].resourceData = req[id].data,
                                             ![t].metadata = TRUE]
                       ELSE store
             IN store' = st /\ lastSnap' = SnapAfter(st)
  /\ UNCHANGED <<files, nextId>>
  /\ UNCHANGED aggVars /\ UNCHANGED normVars /\ UNCHANGED stockVars /\ UNCHANGED clientVars

\* Resource.findByIdAndUpdate(id, {processingStatus: 'completed', resourceData,
\* metadata}): rejects on a CastError or a database error, changes nothing
\* when the document is gone
UpdateCompleted(id, dbError) ==
  /\ req[id].pc = "update"
  /\ IF dbError \/ CastFails(req[id].data)
     THEN /\ req' = [req EXCEPT ![id] = [pc |-> "markFailed", data |-> NewDocData]]
          /\ UNCHANGED <<store, lastSnap>>
     ELSE /\ req' = [req EXCEPT ![id] = [pc |-> "fetch", data |-> NewDocData]]
          /\ LET st == IF Exists(id)
                       THEN [store EXCEPT ![id].status = "completed",
                                          ![id].resourceData = req[id].data,
                                          ![id].metadata = TRUE]
                       ELSE store
             IN store' = st /\ lastSnap' = SnapAfter(st)
  /\ UNCHANGED <<files, nextId>>
  /\ UNCHANGED aggVars /\ UNCHANGED normVars /\ UNCHANGED stockVars /\ UNCHANGED clientVars

\* Resource.findById(id) and the 200 answer; a null document raises a
\* TypeError on updatedResource._id
FetchRespond(id, dbError) ==
  /\ req[id].pc = "fetch"
  /\ req' = [req EXCEPT ![id].pc =
               IF dbError \/ ~Exists(id) THEN "markFailed" ELSE "done200"]
  /\ UNCHANGED <<store, files, nextId, lastSnap>>
  /\ UNCHANGED aggVars /\ UNCHANGED normVars /\ UNCHANGED stockVars /\ UNCHANGED clientVars

\* the failed update that writes the message and leaves the status
MarkFailedMessageOnly(id, dbError) ==
  /\ req[id].pc = "markFailed"
  /\ req' = [req EXCEPT ![id].pc = "cleanup"]
  /\ LET st == IF ~dbError /\ Exists(id)
               THEN [store EXCEPT ![id].errorMessage = "error"]
               ELSE store
     IN store' = st /\ lastSnap' = SnapAfter(st)
  /\ UNCHANGED <<files, nextId>>
  /\ UNCHANGED aggVars /\ UNCHANGED normVars /\ UNCHANGED stockVars /\ UNCHANGED clientVars

\* a catch that rethrows without marking the record
MarkFailedSkipped(id, dbError) ==
  /\ req[id].pc = "markFailed"
  /\ req' = [req EXCEPT ![id].pc = "cleanup"]
  /\ UNCHANGED <<store, files, nextId, lastSnap>>
  /\ UNCHANGED aggVars /\ UNCHANGED normVars /\ UNCHANGED stockVars /\ UNCHANGED clientVars

\* catch (processingError): findByIdAndUpdate(id, {processingStatus: 'failed',
\* errorMessage}), then rethrow
MarkFailed(id, dbError) ==
  /\ req[id].pc = "markFailed"
  /\ req' = [req EXCEPT ![id].pc = "cleanup"]
  /\ LET st == IF ~dbError /\ Exists(id)
               THEN [store EXCEPT ![id].status = "failed", ![id].errorMessage = "error"]
               ELSE store
     IN store' = st /\ lastSnap' = SnapAfter(st)
  /\ UNCHANGED <<files, nextId>>
  /\ UNCHANGED aggVars /\ UNCHANGED normVars /\ UNCHANGED stockVars /\ UNCHANGED clientVars

\* the outer catch: fs.unlink(req.file.path), then the 500 answer
Cleanup(id) ==
  /\ req[id].pc = "cleanup"
  /\ req' = [req EXCEPT ![id].pc = "done500"]
  /\ files' = files \ {id}
  /\ UNCHANGED <<store, nextId, lastSnap>>
  /\ UNCHANGED aggVars /\ UNCHANGED normVars /\ UNCHANGED stockVars /\ UNCHANGED clientVars

(* -------------------------- DELETE /resources/:id ---------------------- *)
\* findOne({_id}) without the userId
DeleteAnyOwner(u, id) ==
  /\ Exists(id)
  /\ files' = files \ {id}
  /\ store' = [store EXCEPT ![id] = [NoDoc EXCEPT !.status = "deleted"]]
  /\ lastSnap' = NoSnap
  /\ UNCHANGED <<req, nextId>>
  /\ UNCHANGED aggVars /\ UNCHANGED normVars /\ UNCHANGED stockVars /\ UNCHANGED clientVars

\* findOne({_id, userId}), fs.unlink(filePath), deleteOne()
Delete(u, id) ==
  /\ Exists(id)
  /\ store[id].userId = u
  /\ files' = files \ {id}
  /\ store' = [store EXCEPT ![id] = [NoDoc EXCEPT !.status = "deleted"]]
  /\ lastSnap' = NoSnap
  /\ UNCHANGED <<req, nextId>>
  /\ UNCHANGED aggVars /\ UNCHANGED normVars /\ UNCHANGED stockVars /\ UNCHANGED clientVars

(* ------------- the branches that answer 400, 404 and 500 --------------- *)
\* the guard placed after resource.save()
UploadNoFileSaved(u) ==
  /\ nextId <= MaxRecords
  /\ store' = [store EXCEPT ![nextId] =
                 [status |-> "processing", userId |-> u, resourceData |-> NewDocData,
                  metadata |-> FALSE, errorMessage |-> ""]]
  /\ nextId' = nextId + 1
  /\ lastSnap' = NoSnap
  /\ UNCHANGED <<files, req>>
  /\ UNCHANGED aggVars /\ UNCHANGED normVars /\ UNCHANGED stockVars /\ UNCHANGED clientVars

\* if (!req.file) return res.status(400): nothing is created
UploadNoFile(u) ==
  /\ u \in Users
  /\ UNCHANGED <<store, files, req, nextId, lastSnap>>
  /\ UNCHANGED aggVars /\ UNCHANGED normVars /\ UNCHANGED stockVars /\ UNCHANGED clientVars

\* the outer catch when fs.unlink rejects: the error is logged, the file
\* stays, the 500 answer is sent
CleanupUnlinkFails(id) ==
  /\ req[id].pc = "cleanup"
  /\ req' = [req EXCEPT ![id].pc = "done500"]
  /\ UNCHANGED <<store, files, nextId, lastSnap>>
  /\ UNCHANGED aggVars /\ UNCHANGED normVars /\ UNCHANGED stockVars /\ UNCHANGED clientVars

\* findOne({_id, userId}) finds nothing: 404
DeleteNotFound(u, id) ==
  /\ ~(Exists(id) /\ store[id].userId = u)
  /\ UNCHANGED <<store, files, req, nextId, lastSnap>>
  /\ UNCHANGED aggVars /\ UNCHANGED normVars /\ UNCHANGED stockVars /\ UNCHANGED clientVars

\* fs.unlink(resource.filePath) rejects: the error is logged, deleteOne()
\* runs all the same
DeleteUnlinkFails(u, id) ==
  /\ Exists(id)
  /\ store[id].userId = u
  /\ store' = [store EXCEPT ![id] = [NoDoc EXCEPT !.status = "deleted"]]
  /\ lastSnap' = NoSnap
  /\ UNCHANGED <<files, req, nextId>>
  /\ UNCHANGED aggVars /\ UNCHANGED normVars /\ UNCHANGED stockVars /\ UNCHANGED clientVars

\* the database rejects findOne (nothing was unlinked) or deleteOne (the
\* file was unlinked before it): the outer catch answers 500
DeleteDbFails(u, id, unlinked) ==
  /\ unlinked => (Exists(id) /\ store[id].userId = u)
  /\ files' = IF unlinked THEN files \ {id} ELSE files
  /\ UNCHANGED <<store, req, nextId, lastSnap>>
  /\ UNCHANGED aggVars /\ UNCHANGED normVars /\ UNCHANGED stockVars /\ UNCHANGED clientVars

\* Spec follows the documents and the snapshots; what the requests answer
\* and log is followed in SpecReq only
Next ==
  \/ \E u \in Readers : GetAggregated(u) /\ UNCHANGED seen
  \/ \E u \in Users : UploadCreate(u) /\ UNCHANGED seen
  \/ \E id \in Ids : ProcessRaises(id) /\ UNCHANGED seen
  \/ \E id \in Ids, p \in UploadPayloads : ProcessParsed(id, p) /\ UNCHANGED seen
  \/ \E id \in Ids, dbError \in BOOLEAN : UpdateCompleted(id, dbError) /\ UNCHANGED seen
  \/ \E id \in Ids, dbError \in BOOLEAN : FetchRespond(id, dbError) /\ UNCHANGED seen
  \/ \E id \in Ids, dbError \in BOOLEAN : MarkFailed(id, dbError) /\ UNCHANGED seen
  \/ \E id \in Ids : Cleanup(id) /\ UNCHANGED seen
  \/ \E u \in Users, id \in Ids : Delete(u, id) /\ UNCHANGED seen

Spec == Init /\ [][Next]_vars

\* SpecDocs: the requests that write the documents, without the reads; a
\* read changes no document, so the documents go through the same histories
NextDocs ==
  \/ \E u \in Users : UploadCreate(u) /\ UNCHANGED seen
  \/ \E id \in Ids : ProcessRaises(id) /\ UNCHANGED seen
  \/ \E id \in Ids, p \in UploadPayloads : ProcessParsed(id, p) /\ UNCHANGED seen
  \/ \E id \in Ids, dbError \in BOOLEAN : UpdateCompleted(id, dbError) /\ UNCHANGED seen
  \/ \E id \in Ids, dbError \in BOOLEAN : FetchRespond(id, dbError) /\ UNCHANGED seen
  \/ \E id \in Ids, dbError \in BOOLEAN : MarkFailed(id, dbError) /\ UNCHANGED seen
  \/ \E id \in Ids : Cleanup(id) /\ UNCHANGED seen
  \/ \E u \in Users, id \in Ids : Delete(u, id) /\ UNCHANGED seen

SpecDocs == Init /\ [][NextDocs]_vars

(* ------------- SpecReq: the requests, their answers and faults --------- *)
\* the step sends an answer: the request it answers (the handler, and for
\* DELETE the caller and the id asked for) and the status code
Answers(op, u, id, code) ==
  seen' = [seen EXCEPT !.op = op, !.user = u, !.id = id, !.code = code]

\* the step sends no answer
Silent == Answers("", "", 0, 0)

\* the step logs a failure of the upload request of record id, and sends the
\* answer with this status code (0: none)
Logs(what, id, code) ==
  seen' = [seen EXCEPT !.op = IF code = 0 THEN "" ELSE "upload",
                       !.user = "", !.id = 0, !.code = code,
                       ![what] = @ \cup {id}]

NextReq ==
  \/ \E u \in Uploaders : nextId <= MaxUploads /\ UploadCreate(u) /\ Silent
  \/ \E u \in Uploaders : UploadNoFile(u) /\ Answers("uploadNoFile", "", 0, 400)
  \/ \E id \in Ids : ProcessRaises(id) /\ Logs("failed", id, 0)
  \/ \E id \in Ids, p \in UploadPayloads :
       /\ ProcessParsed(id, p)
       /\ IF Normalize(p).err THEN Logs("failed", id, 0) ELSE Silent
  \/ \E id \in Ids, dbError \in BOOLEAN : UpdateCompleted(id, dbError) /\ Silent
  \/ \E id \in Ids, dbError \in BOOLEAN :
       /\ FetchRespond(id, dbError)
       /\ IF req'[id].pc = "done200" THEN Answers("upload", "", 0, 200) ELSE Silent
  \/ \E id \in Ids, dbError \in BOOLEAN :
       /\ MarkFailed(id, dbError)
       /\ IF dbError THEN Logs("unmarked", id, 0) ELSE Silent
  \/ \E id \in Ids : Cleanup(id) /\ Answers("upload", "", 0, 500)
  \/ \E id \in Ids : CleanupUnlinkFails(id) /\ Logs("kept", id, 500)
  \/ \E u \in Users, id \in Ids : Delete(u, id) /\ Answers("delete", u, id, 200)
  \/ \E u \in Users, id \in Ids :
       /\ DeleteUnlinkFails(u, id)
       /\ seen' = [seen EXCEPT !.op = "delete", !.user = u, !.id = id, !.code = 200,
                               !.kept = @ \cup {id}]
  \/ \E u \in Users, id \in Ids :
       DeleteNotFound(u, id) /\ Answers("delete", u, id, 404)
  \/ \E u \in Users, id \in Ids, unlinked \in BOOLEAN :
       DeleteDbFails(u, id, unlinked) /\ Answers("delete", u, id, 500)

SpecReq == Init /\ [][NextReq]_vars

(* ----------------- SpecAgg: the merge loop on its own ------------------ *)
InitAgg ==
  /\ StoreInit /\ NormIdle /\ StockIdle /\ ClientIdle
  /\ aggIn \in SeqsUpTo(StoredDatas, MaxAggRecs)
  /\ aggOut = NoAgg
  /\ aggPrev = NoAgg

\* one run of the merge loop over the records in their present order; two
\* runs are compared
AggRun ==
  /\ ~aggPrev.done
  /\ aggOut' = [done |-> TRUE, input |-> aggIn, snap |-> Aggregate(aggIn)]
  /\ aggPrev' = aggOut
  /\ UNCHANGED aggIn
  /\ UNCHANGED storeVars /\ UNCHANGED normVars /\ UNCHANGED stockVars /\ UNCHANGED clientVars

\* the same records in another order, between the two runs: two neighbours
\* change places
AggReorder(i) ==
  /\ aggOut.done /\ ~aggPrev.done
  /\ i \in 1..(Len(aggIn) - 1)
  /\ aggIn[i] # aggIn[i + 1]
  /\ aggIn' = [aggIn EXCEPT ![i] = aggIn[i + 1], ![i + 1] = aggIn[i]]
  /\ UNCHANGED <<aggOut, aggPrev>>
  /\ UNCHANGED storeVars /\ UNCHANGED normVars /\ UNCHANGED stockVars /\ UNCHANGED clientVars

NextAgg == AggRun \/ \E i \in 1..MaxAggRecs : AggReorder(i)

SpecAgg == InitAgg /\ [][NextAgg]_vars

(* ------------- SpecStock: the Stock Threshold Monitor ------------------ *)
\* the fixed low-stock threshold
Threshold == 5

\* list member f of an inventory view
InvList(inv, f) ==
  CASE f = "medicines" -> inv.medicines
    [] f = "instruments" -> inv.instruments
    [] OTHER -> inv.other_equipment

\* the check with <= for <: an item at the threshold is reported too
LowStockAtOrBelow(inv, threshold) ==
  {[field |-> f, index |-> 0, item |-> <<>>, count |-> inv.scalars[f],
    threshold |-> threshold] : f \in {g \in ScalarFields : inv.scalars[g] <= threshold}}
  \cup UNION {{[field |-> f, index |-> j, item |-> InvList(inv, f)[j].name,
                count |-> InvList(inv, f)[j].count, threshold |-> threshold] :
                 j \in {i \in 1..Len(InvList(inv, f)) : InvList(inv, f)[i].count <= threshold}} :
               f \in ListFields}

\* the StockAlerts of an inventory view: every scalar field and every entry
\* of medicines, instruments and other_equipment is an item; an item is
\* reported, with its count and the threshold, when its count is below the
\* threshold. A scalar item is named by its field; an entry by its name and
\* its place in its list.
LowStock(inv, threshold) ==
  {[field |-> f, index |-> 0, item |-> <<>>, count |-> inv.scalars[f],
    threshold |-> threshold] : f \in {g \in ScalarFields : inv.scalars[g] < threshold}}
  \cup UNION {{[field |-> f, index |-> j, item |-> InvList(inv, f)[j].name,
                count |-> InvList(inv, f)[j].count, threshold |-> threshold] :
                 j \in {i \in 1..Len(InvList(inv, f)) : InvList(inv, f)[i].count < threshold}} :
               f \in ListFields}

\* the views the check is asked about: the inventory of the snapshot of up
\* to MaxAggRecs completed records
InitStock ==
  /\ StoreInit /\ AggIdle /\ NormIdle /\ ClientIdle
  /\ stockIn \in {Aggregate(datas).inventory : datas \in SeqsUpTo(StoredDatas, MaxAggRecs)}
  /\ alerts = NoAlerts

\* POST /allocations/check-stock answers lowStockItems
CheckStock ==
  /\ ~alerts.done
  /\ alerts' = [done |-> TRUE, items |-> LowStock(stockIn, Threshold)]
  /\ UNCHANGED stockIn
  /\ UNCHANGED storeVars /\ UNCHANGED aggVars /\ UNCHANGED normVars
  /\ UNCHANGED clientVars

NextStock == CheckStock

SpecStock == InitStock /\ [][NextStock]_vars

(* --------------- SpecNorm: normalization and the cast ------------------ *)
InitNorm ==
  /\ StoreInit /\ AggIdle /\ StockIdle /\ ClientIdle
  /\ normIn \in RawPayloads
  /\ normOut = NoNorm
  /\ normStage = "raw"

NormRun ==
  /\ normStage = "raw"
  /\ normOut' = Normalize(normIn)
  /\ normStage' = "normalized"
  /\ UNCHANGED normIn
  /\ UNCHANGED storeVars /\ UNCHANGED aggVars /\ UNCHANGED stockVars /\ UNCHANGED clientVars

\* the completed update of the upload handler, applied to the normalized data
NormCast ==
  /\ normStage = "normalized"
  /\ ~normOut.err
  /\ normStage' = IF CastFails(normOut.data) THEN "rejected" ELSE "stored"
  /\ UNCHANGED <<normIn, normOut>>
  /\ UNCHANGED storeVars /\ UNCHANGED aggVars /\ UNCHANGED stockVars /\ UNCHANGED clientVars

NextNorm == NormRun \/ NormCast

SpecNorm == InitNorm /\ [][NextNorm]_vars

(* ----------------- SpecList: GET /resources on a store ----------------- *)
\* a record as the upload and delete handlers leave it at rest, with the
\* position of its request and whether its file is on disk: just created,
\* completed, failed, deleted after it completed
RestingRecords ==
  {[doc |-> [status |-> "processing", userId |-> u, resourceData |-> NewDocData,
             metadata |-> FALSE, errorMessage |-> ""],
    pc |-> "process", file |-> TRUE] : u \in Users}
  \cup {[doc |-> [status |-> "completed", userId |-> u,
                  resourceData |-> Normalize(ReportA).data,
                  metadata |-> TRUE, errorMessage |-> ""],
         pc |-> "done200", file |-> TRUE] : u \in Users}
  \cup {[doc |-> [status |-> "failed", userId |-> u, resourceData |-> NewDocData,
                  metadata |-> FALSE, errorMessage |-> "error"],
         pc |-> "done500", file |-> FALSE] : u \in Users}
  \cup {[doc |-> [NoDoc EXCEPT !.status = "deleted"], pc |-> "done200", file |-> FALSE]}

\* the stores the list is asked on: the first records created, one after
\* the other, each at rest
InitList ==
  /\ AggIdle /\ NormIdle /\ StockIdle /\ ClientIdle
  /\ \E recs \in SeqsUpTo(RestingRecords, MaxRecords) :
       /\ store = [id \in Ids |-> IF id <= Len(recs) THEN recs[id].doc ELSE NoDoc]
       /\ files = {id \in 1..Len(recs) : recs[id].file}
       /\ req = [id \in Ids |-> IF id <= Len(recs)
                                THEN [pc |-> recs[id].pc, data |-> NewDocData]
                                ELSE NoReq]
       /\ nextId = Len(recs) + 1
  /\ lastSnap = NoSnap
  /\ seen = NoSeen

\* router.get('/'): the answer of the list asked by u with ?limit=&page=
GetList(u, limit, page) ==
  /\ listed' = [asked |-> TRUE, user |-> u, limit |-> limit, page |-> page,
                out |-> GetResources(u, limit, page, store)]
  /\ UNCHANGED <<allocs, form, poll, mw>>
  /\ UNCHANGED coreVars

\* the list is asked with every limit up to one more than the records and
\* every page up to one past the last
NextList ==
  \E u \in Users, limit \in 1..(MaxRecords + 1), page \in 1..(MaxRecords + 2) :
    GetList(u, limit, page)

SpecList == InitList /\ [][NextList]_vars

(* ------------- SpecAlloc: the Allocation Ledger and its form ----------- *)
\* AllocationRecords ever created
MaxAllocs == 2

\* Allocation.status
AllocStatuses == {"pending", "allocated", "deallocated", "completed"}

\* the patient names a document gives the form, and a caller of the API
\* sends: none, the empty string, a blank, a name
PatientNames == {NoName, Name(<<>>), Name(<<" ">>), Name(Rao)}

\* patientInfo.name is present
Present(nm) == nm.k = "str" /\ nm.s # <<>>

\* the user who allocates, through the form and through the API; both
\* users ask for updates and deallocations. The ledger treats every user
\* alike
Allocators == {"u1"}

\* the ledger answers a request: the operation, the patient name it was
\* given (create) and the error, if any
LedgerAnswers(op, nm, error) == [allocs EXCEPT !.op = op, !.name = nm, !.error = error]

\* the record addressed by a request of user u, if u has it
Owned(u, id) == id <= Len(allocs.recs) /\ allocs.recs[id].owner = u

\* create that stores the record as pending
CreatePending(u, nm) ==
  IF ~Present(nm)
  THEN LedgerAnswers("create", nm, "ValidationError")
  ELSE [LedgerAnswers("create", nm, "") EXCEPT
          !.recs = Append(allocs.recs, [owner |-> u, status |-> "pending"]),
          !.checks = allocs.checks + 1]

\* create(ownerId, ..., patientInfo, ...): the ledger after it. A name that
\* is not present gives a ValidationError and nothing else; otherwise a
\* record with status allocated is stored and a stock check is triggered
Create(u, nm) ==
  IF ~Present(nm)
  THEN LedgerAnswers("create", nm, "ValidationError")
  ELSE [LedgerAnswers("create", nm, "") EXCEPT
          !.recs = Append(allocs.recs, [owner |-> u, status |-> "allocated"]),
          !.checks = allocs.checks + 1]

\* POST /allocations sent by a caller of the API
PostAllocation(u, nm) ==
  /\ Present(nm) => Len(allocs.recs) < MaxAllocs
  /\ allocs' = Create(u, nm)
  /\ UNCHANGED <<listed, form, poll, mw>>
  /\ UNCHANGED coreVars

\* updateStatus(allocationId, newStatus, notes): PUT /allocations/:id with
\* { status?, notes? }. Any of the four values is taken, from any status
UpdateStatus(u, id, status) ==
  /\ allocs' =
       IF ~Owned(u, id) THEN LedgerAnswers("update", NoName, "NotFoundError")
       ELSE IF status = "" THEN LedgerAnswers("update", NoName, "")
       ELSE IF status \notin AllocStatuses
       THEN LedgerAnswers("update", NoName, "ValidationError")
       ELSE [LedgerAnswers("update", NoName, "") EXCEPT
               !.recs[id].status = status]
  /\ UNCHANGED <<listed, form, poll, mw>>
  /\ UNCHANGED coreVars

\* deallocate(allocationId): DELETE /allocations/:id
Deallocate(u, id) ==
  /\ allocs' =
       IF ~Owned(u, id) THEN LedgerAnswers("deallocate", NoName, "NotFoundError")
       ELSE [LedgerAnswers("deallocate", NoName, "") EXCEPT
               !.recs[id].status = "deallocated"]
  /\ UNCHANGED <<listed, form, poll, mw>>
  /\ UNCHANGED coreVars

\* handleSubmit without the test of the name
HandleSubmitNoValidation ==
  /\ ~form.loading
  /\ form' = [form EXCEPT !.loading = TRUE, !.request = "sent"]
  /\ UNCHANGED <<listed, allocs, poll, mw>>
  /\ UNCHANGED coreVars

\* handleSubmit up to its first await: setLoading(true); a falsy name gives
\* the toast and returns through finally; otherwise createAllocation is
\* called. The button is disabled while loading
HandleSubmit ==
  /\ ~form.loading
  /\ form' = IF ~Truthy(form.name)
             THEN [form EXCEPT !.toast = "Patient name is required", !.loading = FALSE]
             ELSE [form EXCEPT !.loading = TRUE, !.request = "sent"]
  /\ UNCHANGED <<listed, allocs, poll, mw>>
  /\ UNCHANGED coreVars

\* the ledger serves the request of the form
ServeForm ==
  /\ form.request = "sent"
  /\ Present(form.name) => Len(allocs.recs) < MaxAllocs
  /\ \E u \in Allocators : allocs' = Create(u, form.name)
  /\ form' = [form EXCEPT !.request = IF allocs'.error = "" THEN "success" ELSE "failure"]
  /\ UNCHANGED <<listed, poll, mw>>
  /\ UNCHANGED coreVars

\* fetch rejects: the request did not reach the ledger
RequestLost ==
  /\ form.request = "sent"
  /\ form' = [form EXCEPT !.request = "rejected"]
  /\ UNCHANGED <<listed, allocs, poll, mw>>
  /\ UNCHANGED coreVars

\* handleSubmit after the await: the toast of the answer, or the catch, and
\* finally setLoading(false)
HandleAnswer ==
  /\ form.request \in {"success", "failure", "rejected"}
  /\ form' = [form EXCEPT
                !.toast = IF form.request = "success"
                          THEN "Resources allocated successfully"
                          ELSE "Failed to allocate resources",
                !.loading = FALSE, !.request = "none"]
  /\ UNCHANGED <<listed, allocs, poll, mw>>
  /\ UNCHANGED coreVars

\* the form is mounted on a document
InitAlloc ==
  /\ StoreInit /\ AggIdle /\ NormIdle /\ StockIdle
  /\ listed = NoList /\ poll = NoPoll /\ mw = NoMw
  /\ allocs = NoAllocs
  /\ \E nm \in PatientNames : form = [NoForm EXCEPT !.name = nm]

NextAlloc ==
  \/ \E u \in Allocators, nm \in PatientNames : PostAllocation(u, nm)
  \* the status member of the body: left out, one of the four, another string
  \/ \E u \in Users, id \in 1..MaxAllocs, status \in AllocStatuses \cup {"", "cancelled"} :
       UpdateStatus(u, id, status)
  \/ \E u \in Users, id \in 1..MaxAllocs : Deallocate(u, id)
  \/ HandleSubmit
  \/ ServeForm
  \/ RequestLost
  \/ HandleAnswer

SpecAlloc == InitAlloc /\ [][NextAlloc]_vars

(* ------------- SpecPoll: the Resources page during an upload ----------- *)
\* callbacks of the interval that await their fetch at one time: a fetch
\* returns within MaxInFlight seconds
MaxInFlight == 2

\* if (attempts > 30)
MaxAttempts == 30

\* the test with >= for >
OverAttemptsInclusive(attempts) == attempts >= MaxAttempts

\* attempts > 30
OverAttempts(attempts) == attempts > MaxAttempts

\* handleFileSelect with a PDF: setSelectedFile(file). The upload button is
\* disabled while uploading
HandleFileSelect ==
  /\ ~poll.uploading
  /\ ~poll.selectedFile
  /\ poll' = [poll EXCEPT !.selectedFile = TRUE]
  /\ UNCHANGED <<listed, allocs, form, mw>>
  /\ UNCHANGED coreVars

\* handleUpload up to its await: without a file or a token it returns;
\* otherwise setUploading(true) and uploadResourcePDF is called. The buttons
\* are disabled while uploading; one upload request is under way at a time
HandleUpload(token) ==
  /\ ~poll.uploading
  /\ poll.upload = "none"
  /\ poll.selectedFile /\ token
  /\ poll' = [poll EXCEPT !.uploading = TRUE, !.upload = "sent"]
  /\ UNCHANGED <<listed, allocs, form, mw>>
  /\ UNCHANGED coreVars

\* the upload answers success: attempts = 0 and setInterval(..., 1000). One
\* interval runs at a time, and it starts once the callbacks of the one
\* before it have returned
UploadSucceeds ==
  /\ poll.upload = "sent"
  /\ ~poll.interval /\ poll.inFlight = 0
  /\ poll' = [poll EXCEPT !.upload = "none", !.interval = TRUE, !.attempts = 0,
                          !.fetched = ""]
  /\ UNCHANGED <<listed, allocs, form, mw>>
  /\ UNCHANGED coreVars

\* uploadResourcePDF rejects or answers success: false: the catch block
UploadFails ==
  /\ poll.upload = "sent"
  /\ poll' = [poll EXCEPT !.upload = "none", !.uploading = FALSE]
  /\ UNCHANGED <<listed, allocs, form, mw>>
  /\ UNCHANGED coreVars

\* the interval fires: attempts++ and getAggregatedResources is called; the
\* callback awaits the answer while the interval goes on
Tick ==
  /\ poll.interval
  /\ poll.inFlight < MaxInFlight
  /\ poll' = [poll EXCEPT !.attempts = @ + 1, !.inFlight = @ + 1]
  /\ UNCHANGED <<listed, allocs, form, mw>>
  /\ UNCHANGED coreVars

\* a callback goes on after its await: with success and data it clears the
\* interval, setSelectedFile(null), setUploading(false); an answer without
\* them or a rejection changes nothing; then, with attempts > 30, it clears
\* the interval and setUploading(false). fetchAggregatedResources() touches
\* resourceData and loading only
PollSettles(ok) ==
  /\ poll.inFlight > 0
  /\ LET afterFetch ==
           IF ok THEN [poll EXCEPT !.interval = FALSE, !.selectedFile = FALSE,
                                   !.uploading = FALSE]
           ELSE poll
         afterTest ==
           IF OverAttempts(poll.attempts)
           THEN [afterFetch EXCEPT !.interval = FALSE, !.uploading = FALSE]
           ELSE afterFetch
     IN poll' = [afterTest EXCEPT !.inFlight = @ - 1,
                                  !.fetched = IF ok THEN "ok" ELSE "failed"]
  /\ UNCHANGED <<listed, allocs, form, mw>>
  /\ UNCHANGED coreVars

InitPoll ==
  /\ StoreInit /\ AggIdle /\ NormIdle /\ StockIdle
  /\ listed = NoList /\ allocs = NoAllocs /\ form = NoForm /\ mw = NoMw
  /\ poll = NoPoll

NextPoll ==
  \/ HandleFileSelect
  \/ \E token \in BOOLEAN : HandleUpload(token)
  \/ UploadSucceeds
  \/ UploadFails
  \/ Tick
  \/ \E ok \in BOOLEAN : PollSettles(ok)

\* the timer fires while the interval is set, every fetch returns, and the
\* upload request is answered
SpecPoll ==
  /\ InitPoll /\ [][NextPoll]_vars
  /\ WF_vars(Tick)
  /\ WF_vars(\E ok \in BOOLEAN : PollSettles(ok))
  /\ WF_vars(UploadSucceeds \/ UploadFails)

(* ------------------ SpecMw: the frontend middleware -------------------- *)
\* paths, as sequences of characters
Root == <<"/">>
SignInPath == <<"/", "s", "i", "g", "n", "-", "i", "n">>

\* req.nextUrl.pathname: the home page, a page, a page below a page
Paths ==
  LET first ==
        {<<"r", "e", "s", "o", "u", "r", "c", "e", "s">>,
         <<"d", "a", "s", "h", "b", "o", "a", "r", "d">>,
         <<"s", "i", "g", "n", "-", "i", "n">>,
         <<"s", "i", "g", "n", "-", "i", "n", "-", "h", "e", "l", "p">>,
         <<"h", "e", "a", "l", "t", "h">>,
         <<"h", "e", "a", "l", "t", "h", "z">>,
         <<"a", "p", "i">>,
         <<"_", "n", "e", "x", "t">>,
         <<"u", "p", "l", "o", "a", "d">>,
         <<"a", "l", "l", "o", "c", "a", "t", "i", "o", "n", "s">>}
      second ==
        {<<"w", "e", "b", "h", "o", "o", "k", "s">>,
         <<"s", "t", "a", "t", "i", "c">>,
         <<"x">>}
  IN {Root} \cup {Root \o a : a \in first}
     \cup {Root \o a \o Root \o b : a \in first, b \in second}

\* String.prototype.startsWith
StartsWith(s, prefix) ==
  Len(prefix) <= Len(s) /\ SubSeq(s, 1, Len(prefix)) = prefix

\* config.matcher: every path but the Next.js internals and the static
\* files, and every path of the API (no path asked for here ends in an
\* image extension)
Matched(path) ==
  \/ StartsWith(path, <<"/", "a", "p", "i">>)
  \/ StartsWith(path, <<"/", "t", "r", "p", "c">>)
  \/ ~(\/ StartsWith(path, <<"/", "_", "n", "e", "x", "t", "/", "s", "t", "a", "t", "i", "c">>)
       \/ StartsWith(path, <<"/", "_", "n", "e", "x", "t", "/", "i", "m", "a", "g", "e">>)
       \/ StartsWith(path, <<"/", "f", "a", "v", "i", "c", "o", "n", ".", "i", "c", "o">>))

\* publicRoutes of the cookie-based middleware
PublicRoutes ==
  {Root, SignInPath,
   <<"/", "s", "i", "g", "n", "-", "u", "p">>,
   <<"/", "a", "p", "i", "/", "w", "e", "b", "h", "o", "o", "k", "s">>,
   <<"/", "h", "e", "a", "l", "t", "h">>,
   <<"/", "f", "a", "v", "i", "c", "o", "n", ".", "i", "c", "o">>,
   <<"/", "_", "n", "e", "x", "t">>}

\* allowedPrefixes of the permissive dev middleware
AllowedPrefixes ==
  {Root, SignInPath,
   <<"/", "s", "i", "g", "n", "-", "u", "p">>,
   <<"/", "a", "p", "i", "/", "w", "e", "b", "h", "o", "o", "k", "s">>,
   <<"/", "a", "p", "i", "/", "u", "p", "l", "o", "a", "d">>,
   <<"/", "u", "p", "l", "o", "a", "d">>,
   <<"/", "d", "a", "s", "h", "b", "o", "a", "r", "d">>,
   <<"/", "_", "n", "e", "x", "t", "/", "s", "t", "a", "t", "i", "c">>,
   <<"/", "_", "n", "e", "x", "t", "/", "i", "m", "a", "g", "e">>,
   <<"/", "f", "a", "v", "i", "c", "o", "n", ".", "i", "c", "o">>,
   <<"/", "a", "s", "s", "e", "t", "s">>}

\* publicRoutes.some((route) => pathname === route || pathname.startsWith(route))
IsPublicRoute(path) ==
  \E route \in PublicRoutes : path = route \/ StartsWith(path, route)

\* allowedPrefixes.some((p) => pathname === p || pathname.startsWith(p + '/')
\* || pathname.startsWith(p))
IsPublic(path) ==
  \E p \in AllowedPrefixes :
    path = p \/ StartsWith(path, p \o Root) \/ StartsWith(path, p)

\* NextResponse.next()
PassedOn(dev, path, cookie) ==
  [asked |-> TRUE, dev |-> dev, path |-> path, cookie |-> cookie,
   out |-> "next", location |-> <<>>, redirectUrl |-> <<>>]

\* NextResponse.redirect(signInUrl) with redirect_url = req.url
Redirected(dev, path, cookie) ==
  [asked |-> TRUE, dev |-> dev, path |-> path, cookie |-> cookie,
   out |-> "redirect", location |-> SignInPath, redirectUrl |-> path]

\* the cookie-based middleware on a request with or without the authToken
\* cookie
Middleware(path, cookie) ==
  /\ Matched(path)
  /\ mw' = IF IsPublicRoute(path) THEN PassedOn(FALSE, path, cookie)
           ELSE IF ~cookie THEN Redirected(FALSE, path, cookie)
           ELSE PassedOn(FALSE, path, cookie)
  /\ UNCHANGED <<listed, allocs, form, poll>>
  /\ UNCHANGED coreVars

\* the permissive dev middleware: it does not look at the cookie
DevMiddleware(path, cookie) ==
  /\ Matched(path)
  /\ mw' = IF IsPublic(path) THEN PassedOn(TRUE, path, cookie)
           ELSE Redirected(TRUE, path, cookie)
  /\ UNCHANGED <<listed, allocs, form, poll>>
  /\ UNCHANGED coreVars

InitMw ==
  /\ StoreInit /\ AggIdle /\ NormIdle /\ StockIdle
  /\ listed = NoList /\ allocs = NoAllocs /\ form = NoForm /\ poll = NoPoll
  /\ mw = NoMw

NextMw ==
  \/ \E path \in Paths, cookie \in BOOLEAN : Middleware(path, cookie)
  \/ \E path \in Paths, cookie \in BOOLEAN : DevMiddleware(path, cookie)

SpecMw == InitMw /\ [][NextMw]_vars

(* ======================= normalization (SpecNorm) ====================== *)
RawListOf(p, f) ==
  CASE f = "doctors" -> p.doctors
    [] f = "nurses" -> p.nurses
    [] f = "medicines" -> p.inventory.medicines
    [] f = "instruments" -> p.inventory.instruments
    [] OTHER -> p.inventory.other_equipment

NormListOf(d, f) ==
  CASE f = "doctors" -> d.doctors
    [] f = "nurses" -> d.nurses
    [] f = "medicines" -> d.inventory.medicines
    [] f = "instruments" -> d.inventory.instruments
    [] OTHER -> d.inventory.other_equipment

\* the payload has no number, string or other value in scalar member f:
\* inventory is missing or null, or the member is
ScalarAbsent(p, f) ==
  \/ p.inventory.k \in {"undef", "null"}
  \/ p.inventory.scalars[f].k \in {"undef", "null"}

\* C8: on a payload that is an object normalization does not raise, every
\* list member that is not an array becomes the empty list and every scalar
\* member that is null or missing (also with inventory itself missing)
\* becomes 0.
C8_NormalizationCoerces ==
  (normStage # "raw" /\ normIn.k = "obj") =>
    /\ ~normOut.err
    /\ \A f \in {"doctors", "nurses"} \cup ListFields :
         RawListOf(normIn, f).k # "arr" => NormListOf(normOut.data, f) = <<>>
    /\ \A f \in ScalarFields :
         ScalarAbsent(normIn, f) => normOut.data.inventory.scalars[f] = Num(0)

\* inventory.saline = null and doctors = "none" have been normalized
C8_Witness ==
  /\ normStage = "normalized"
  /\ normIn.k = "obj" /\ normIn.doctors.k = "str"
  /\ normIn.inventory.k = "obj" /\ normIn.inventory.scalars["saline"] = Null
  /\ normOut.data.doctors = <<>>
  /\ normOut.data.inventory.scalars["saline"] = Num(0)

\* C10: normalization of a parsed payload fails exactly when the payload is
\* not an object (null, a number, a string, an array).
C10_FailsIffNotObject ==
  normStage # "raw" => (normOut.err <=> normIn.k # "obj")

(* ========================= the merge loop (SpecAgg) ==================== *)
\* the entries of list member f of all records, in input order
RECURSIVE Flatten(_, _)
Flatten(datas, f) ==
  IF datas = <<>> THEN <<>>
  ELSE NormListOf(Head(datas), f) \o Flatten(Tail(datas), f)

RECURSIVE SumOver(_, _)
SumOver(S, val) ==
  IF S = {} THEN 0
  ELSE LET x == CHOOSE y \in S : TRUE IN val[x] + SumOver(S \ {x}, val)

Least(S) == CHOOSE x \in S : \A y \in S : x <= y

\* the normalized name of the claims: the name trimmed and lower-cased
NormalName(s) == ToLowerCase(Trim(s))

\* a count as a number: a missing or null count is 0
CountValue(c) == IF c.k = "num" THEN c.n ELSE 0

\* C1: the aggregated doctors list, and the nurses list, holds at most one
\* entry per normalized (trimmed, lower-cased) name.
C1_OneStaffPerNormalizedName ==
  aggOut.done =>
    \A f \in {"doctors", "nurses"} :
      LET out == NormListOf(aggOut.snap, f)
      IN \A i, j \in 1..Len(out) :
           i # j => NormalName(out[i].name.s) # NormalName(out[j].name.s)

\* list member f of the snapshot has exactly one entry for each normalized
\* name of the source entries numbered in `named`, with the summed count and
\* the display name of the first of them, and no other entry
MergedByKey(f, items, named) ==
  LET out == NormListOf(aggOut.snap, f)
      keys == {NormalName(items[i].name.s) : i \in named}
  IN /\ \A j \in 1..Len(out) : NormalName(out[j].name) \in keys
     /\ \A key \in keys :
          LET same == {i \in named : NormalName(items[i].name.s) = key}
              cnt == [i \in same |-> CountValue(items[i].count)]
          IN /\ Cardinality({j \in 1..Len(out) : NormalName(out[j].name) = key}) = 1
             /\ \A j \in 1..Len(out) :
                  NormalName(out[j].name) = key =>
                    /\ out[j].count = SumOver(same, cnt)
                    /\ out[j].name = items[Least(same)].name.s

\* C2 as stated: one aggregated entry per normalized name occurring in the
\* records, with the sum of the counts of all entries of that normalized
\* name and the display name of the first of them.
C2_OnePerNameOccurring ==
  aggOut.done =>
    \A f \in ListFields :
      LET items == Flatten(aggOut.input, f)
      IN MergedByKey(f, items, {i \in 1..Len(items) : items[i].name.k = "str"})

\* C2 amended: the same, over the entries whose name is a non-empty string;
\* an entry with a missing, null or empty name takes no part in the merge.
C2_OnePerNonEmptyName ==
  aggOut.done =>
    \A f \in ListFields :
      LET items == Flatten(aggOut.input, f)
      IN MergedByKey(f, items, {i \in 1..Len(items) : Truthy(items[i].name)})

\* {Paracetamol,10} of one record and {paracetamol,5} of the next have been
\* merged into {Paracetamol,15}
C2_Witness ==
  /\ aggOut.done /\ Len(aggOut.input) = 2
  /\ \E i \in 1..Len(aggOut.input[1].inventory.medicines) :
       aggOut.input[1].inventory.medicines[i] = Item(Name(Paracetamol), Num(10))
  /\ \E i \in 1..Len(aggOut.input[2].inventory.medicines) :
       aggOut.input[2].inventory.medicines[i] = Item(Name(ParacetamolLower), Num(5))
  /\ aggOut.snap.inventory.medicines = <<[name |-> Paracetamol, count |-> 15]>>

\* C3: every scalar inventory field of the snapshot is the sum of that field
\* over the records; a record without inventory adds 0.
C3_ScalarSums ==
  aggOut.done =>
    \A f \in ScalarFields :
      LET val == [i \in 1..Len(aggOut.input) |-> aggOut.input[i].inventory.scalars[f].n]
      IN aggOut.snap.inventory.scalars[f] = SumOver(1..Len(aggOut.input), val)

\* general_beds 3 and 5 have been summed to 8
C3_Witness ==
  /\ aggOut.done /\ Len(aggOut.input) = 2
  /\ aggOut.input[1].inventory.scalars["general_beds"] = Num(3)
  /\ aggOut.input[2].inventory.scalars["general_beds"] = Num(5)
  /\ aggOut.snap.inventory.scalars["general_beds"] = 8

\* what of a snapshot may not depend on the order of the records
Numbers(snap) ==
  [scalars |-> snap.inventory.scalars,
   counts |-> [f \in ListFields |->
                 LET l == NormListOf(snap, f)
                 IN {<<NormalName(l[j].name), l[j].count>> : j \in 1..Len(l)}],
   staff |-> [f \in {"doctors", "nurses"} |->
                LET l == NormListOf(snap, f)
                IN {NormalName(l[j].name.s) : j \in 1..Len(l)}]]

\* C4: two runs over the same records in different orders give the same
\* scalar values, the same count per normalized name in the three inventory
\* lists and the same set of normalized staff names.
C4_OrderIndependent ==
  (aggPrev.done /\ aggOut.done) => Numbers(aggPrev.snap) = Numbers(aggOut.snap)

\* two runs over two orders that differ in a display name only
C4_Witness ==
  /\ aggPrev.done /\ aggOut.done
  /\ aggPrev.snap # aggOut.snap
  /\ aggPrev.snap.inventory.medicines # <<>>

\* the numeric results of a snapshot: every scalar field, and the count of
\* each normalized name in each inventory list
Tally(snap) ==
  [scalars |-> snap.inventory.scalars,
   counts |-> [f \in ListFields |->
                 LET l == NormListOf(snap, f)
                 IN {<<NormalName(l[j].name), l[j].count>> : j \in 1..Len(l)}]]

\* the count a tally holds for a name, 0 for a name it does not hold
CountOf(counts, key) ==
  IF \E c \in counts : c[1] = key
  THEN (CHOOSE c \in counts : c[1] = key)[2]
  ELSE 0

\* one tally added to another, field by field and name by name
PlusTally(t, u) ==
  [scalars |-> [f \in ScalarFields |-> t.scalars[f] + u.scalars[f]],
   counts |-> [f \in ListFields |->
                 {<<key, CountOf(t.counts[f], key) + CountOf(u.counts[f], key)>> :
                    key \in {c[1] : c \in t.counts[f] \cup u.counts[f]}}]]

\* a sequence without its i-th element
Without(seq, i) == SubSeq(seq, 1, i - 1) \o SubSeq(seq, i + 1, Len(seq))

\* C18: for each record r among the records a run aggregates, the numeric
\* results of the run (every scalar field, the count of every normalized name of
\* each inventory list) are those of aggregating the other records with the
\* results of aggregating r alone added field by field and name by name.
C18_IncrementalEquivalence ==
  [][aggOut' # aggOut =>
       \A run \in {aggOut'} :
         \A whole \in {Tally(run.snap)} :
           \A i \in 1..Len(run.input) :
             \A others \in {Tally(Aggregate(Without(run.input, i)))} :
               \A alone \in {Tally(Aggregate(<<run.input[i]>>))} :
                 whole = PlusTally(others, alone)]_vars

\* a run over two records that share a name of an inventory list under two
\* spellings and a scalar field, where the second also brings a name that
\* the first does not have in that list
C18_Witness ==
  /\ aggOut.done /\ Len(aggOut.input) = 2
  /\ LET first == Tally(Aggregate(<<aggOut.input[1]>>)).counts
         second == Tally(Aggregate(<<aggOut.input[2]>>)).counts
     IN /\ \E f \in ListFields :
             \E c \in first[f] : \E d \in second[f] : c[1] = d[1] /\ c[2] > 0 /\ d[2] > 0
        /\ \E f \in ListFields :
             \E d \in second[f] : \A c \in first[f] : c[1] # d[1]
  /\ \E f \in ScalarFields :
       /\ OrZero(aggOut.input[1].inventory.scalars[f]) > 0
       /\ OrZero(aggOut.input[2].inventory.scalars[f]) > 0

\* C23: for every name doctors (or nurses) entries of the records carry, the
\* aggregated list holds one entry, and it is the first entry of that name
\* in input order, with its available_days and time; every aggregated entry
\* is such a first entry.
C23_FirstSeenStaffWins ==
  aggOut.done =>
    \A f \in {"doctors", "nurses"} :
      LET items == Flatten(aggOut.input, f)
          out == NormListOf(aggOut.snap, f)
          named == {i \in 1..Len(items) : Truthy(items[i].name)}
          firstOf(nm) == items[Least({i \in named : items[i].name = nm})]
      IN /\ \A i \in named :
              Cardinality({j \in 1..Len(out) : out[j].name = items[i].name}) = 1
         /\ \A j \in 1..Len(out) :
              /\ \E i \in named : items[i].name = out[j].name
              /\ out[j] = firstOf(out[j].name)

\* two records name the same doctor with different available_days, and the
\* aggregated entry has the days of the first record
C23_Witness ==
  /\ aggOut.done /\ Len(aggOut.input) = 2
  /\ aggOut.input[1].doctors # <<>> /\ aggOut.input[2].doctors # <<>>
  /\ aggOut.input[1].doctors[1].name = aggOut.input[2].doctors[1].name
  /\ aggOut.input[1].doctors[1].available_days # aggOut.input[2].doctors[1].available_days
  /\ aggOut.snap.doctors = <<aggOut.input[1].doctors[1]>>

\* the sum of the counts of the entries of an aggregated list
RECURSIVE AggregatedSum(_)
AggregatedSum(out) ==
  IF out = <<>> THEN 0 ELSE Head(out).count + AggregatedSum(Tail(out))

\* the sum of the counts of source entries: of all of them, or of those
\* with a non-empty name
RECURSIVE SourceSum(_, _)
SourceSum(items, namedOnly) ==
  IF items = <<>> THEN 0
  ELSE (IF namedOnly /\ ~Truthy(Head(items).name) THEN 0 ELSE CountValue(Head(items).count))
       + SourceSum(Tail(items), namedOnly)

\* C24 as stated: every entry of the three inventory lists of the records
\* adds its count to one aggregated entry, so the aggregated counts of a
\* list sum to the counts of all its source entries; and every doctors and
\* nurses entry of a record has an aggregated entry of its name.
C24_CountsConserved ==
  aggOut.done =>
    /\ \A f \in ListFields :
         AggregatedSum(NormListOf(aggOut.snap, f)) = SourceSum(Flatten(aggOut.input, f), FALSE)
    /\ \A f \in {"doctors", "nurses"} :
         \A i \in 1..Len(Flatten(aggOut.input, f)) :
           \E j \in 1..Len(NormListOf(aggOut.snap, f)) :
             NormListOf(aggOut.snap, f)[j].name = Flatten(aggOut.input, f)[i].name

\* C24 amended: the same for the entries whose name is a non-empty string;
\* each of them adds its count to exactly one aggregated entry, the one of
\* its normalized name. An entry with a missing, null or empty name is
\* skipped, count and all.
C24_NamedCountsConserved ==
  aggOut.done =>
    /\ \A f \in ListFields :
         LET items == Flatten(aggOut.input, f)
             out == NormListOf(aggOut.snap, f)
         IN /\ AggregatedSum(out) = SourceSum(items, TRUE)
            /\ \A i \in 1..Len(items) :
                 Truthy(items[i].name) =>
                   Cardinality({j \in 1..Len(out) :
                                  NormalName(out[j].name) = NormalName(items[i].name.s)}) = 1
    /\ \A f \in {"doctors", "nurses"} :
         \A i \in 1..Len(Flatten(aggOut.input, f)) :
           Truthy(Flatten(aggOut.input, f)[i].name) =>
             \E j \in 1..Len(NormListOf(aggOut.snap, f)) :
               NormListOf(aggOut.snap, f)[j].name = Flatten(aggOut.input, f)[i].name

\* a run over two records whose medicines share a name, where one medicine
\* entry has an empty name and a count
C24_Witness ==
  /\ aggOut.done /\ Len(aggOut.input) = 2
  /\ LET items == Flatten(aggOut.input, "medicines")
     IN /\ \E i \in 1..Len(items) : ~Truthy(items[i].name) /\ CountValue(items[i].count) > 0
        /\ \E i, k \in 1..Len(items) :
             /\ i # k /\ Truthy(items[i].name) /\ Truthy(items[k].name)
             /\ NormalName(items[i].name.s) = NormalName(items[k].name.s)
        /\ Len(aggOut.snap.inventory.medicines) = 1
        /\ aggOut.snap.inventory.medicines[1].count = SourceSum(items, TRUE)

(* ============================ the store (Spec) ========================= *)
Completed(u) == {id \in Ids : store[id].userId = u /\ store[id].status = "completed"}

C6_OnlyCompletedContribute ==
  lastSnap.user # "" =>
    LET done == Completed(lastSnap.user)
        d == lastSnap.data
    IN /\ {d.resources[i] : i \in 1..Len(d.resources)} = done
       /\ \A f \in ScalarFields :
            d.inventory.scalars[f] =
              SumOver(done, [id \in done |-> store[id].resourceData.inventory.scalars[f].n])
       /\ \A f \in {"doctors", "nurses"} :
            \A j \in 1..Len(NormListOf(d, f)) :
              \E id \in done :
                \E i \in 1..Len(NormListOf(store[id].resourceData, f)) :
                  NormListOf(store[id].resourceData, f)[i] = NormListOf(d, f)[j]
       /\ \A f \in ListFields :
            \A j \in 1..Len(NormListOf(d, f)) :
              LET src(id) == NormListOf(store[id].resourceData, f)
                  same(id) == {i \in 1..Len(src(id)) :
                                 /\ Truthy(src(id)[i].name)
                                 /\ NormalName(src(id)[i].name.s) = NormalName(NormListOf(d, f)[j].name)}
                  perRecord == [id \in done |->
                                  SumOver(same(id), [i \in same(id) |-> CountValue(src(id)[i].count)])]
              IN /\ \E id \in done : same(id) # {}
                 /\ NormListOf(d, f)[j].count = SumOver(done, perRecord)

\* a snapshot taken while the caller has a completed record and a failed
\* record whose resourceData is populated
C6_Witness ==
  /\ lastSnap.user # ""
  /\ Completed(lastSnap.user) # {}
  /\ \E id \in Ids :
       /\ store[id].userId = lastSnap.user
       /\ store[id].status = "failed"
       /\ store[id].resourceData.doctors # <<>>

\* C7: with no completed record of the caller the snapshot has 0 in every
\* scalar field and empty doctors, nurses, medicines, instruments,
\* other_equipment and resources.
C7_EmptyWhenNoneCompleted ==
  (lastSnap.user # "" /\ Completed(lastSnap.user) = {}) =>
    /\ \A f \in ScalarFields : lastSnap.data.inventory.scalars[f] = 0
    /\ lastSnap.data.doctors = <<>> /\ lastSnap.data.nurses = <<>>
    /\ lastSnap.data.inventory.medicines = <<>>
    /\ lastSnap.data.inventory.instruments = <<>>
    /\ lastSnap.data.inventory.other_equipment = <<>>
    /\ lastSnap.data.resources = <<>>

\* a snapshot taken while the caller has records, one of them processing,
\* and none completed
C7_Witness ==
  /\ lastSnap.user # ""
  /\ Completed(lastSnap.user) = {}
  /\ \E id \in Ids : store[id].userId = lastSnap.user /\ store[id].status = "processing"

\* the fold of the claims: the tallies of the records of S, each aggregated
\* alone, added up
RECURSIVE FoldTally(_)
FoldTally(S) ==
  IF S = {} THEN Tally(Aggregate(<<>>))
  ELSE LET id == CHOOSE x \in S : TRUE
       IN PlusTally(Tally(Aggregate(<<store[id].resourceData>>)), FoldTally(S \ {id}))

\* the names list member f of a record or of a snapshot shows
StaffNames(d, f) ==
  {NormListOf(d, f)[j].name.s : j \in {i \in 1..Len(NormListOf(d, f)) : Truthy(NormListOf(d, f)[i].name)}}

\* C17: whatever steps of uploads, completions, failures and deletes came
\* before, the snapshot a GET /aggregated answers is the fold over exactly
\* the records of the caller that are completed when it reads: it lists
\* them, newest first, its scalars and counts per name are their tallies
\* added up, and its staff names are theirs. A record that has just become
\* completed is among them, a deleted one is not.
C17_SnapshotOfCompletedAtRead ==
  [][(lastSnap' # lastSnap /\ lastSnap'.user # "") =>
       \A done \in {{id \in Ids : /\ store'[id].userId = lastSnap'.user
                                  /\ store'[id].status = "completed"}} :
         /\ store' = store
         /\ lastSnap'.data.resources = SortNewestFirst(done)
         /\ Tally(lastSnap'.data) = FoldTally(done)
         /\ \A f \in {"doctors", "nurses"} :
              StaffNames(lastSnap'.data, f) =
                UNION {StaffNames(store[id].resourceData, f) : id \in done}
         /\ \A id \in Ids :
              store[id].status = "deleted" =>
                \A i \in 1..Len(lastSnap'.data.resources) : lastSnap'.data.resources[i] # id]_vars

\* a snapshot taken when one record of the caller is completed, with a
\* count in it, and another one has been deleted
C17_Witness ==
  /\ lastSnap.user # ""
  /\ Len(lastSnap.data.resources) = 1
  /\ lastSnap.data.inventory.medicines # <<>>
  /\ \E id \in Ids : store[id].status = "deleted"

\* C9: in every completed record each of the twelve scalar inventory fields
\* is a non-negative integer.
C9_CompletedScalarsNonNegative ==
  \A id \in Ids :
    store[id].status = "completed" =>
      \A f \in ScalarFields :
        /\ store[id].resourceData.inventory.scalars[f].k = "num"
        /\ store[id].resourceData.inventory.scalars[f].n >= 0

\* C11: once a record is completed or failed, no step changes its status or
\* its resourceData again, except the owner's delete that removes it; in
\* particular completed is never followed by failed.
C11_TerminalStatusKept ==
  [][\A id \in Ids :
       store[id].status \in {"completed", "failed"} =>
         \/ store'[id].status = "deleted"
         \/ /\ store'[id].status = store[id].status
            /\ store'[id].resourceData = store[id].resourceData]_vars

(* ===================== requests and answers (SpecReq) ================== *)
\* the step on which the upload request of record id sends its answer
UploadAnswers(id) ==
  /\ req[id].pc \notin {"done200", "done500"}
  /\ req'[id].pc \in {"done200", "done500"}

\* C12 as stated: an upload whose text extraction or AI analysis failed
\* answers 500, and when it answers its record is failed with a non-empty
\* errorMessage and its file is off the disk.
C12_ProcessingFailureMarksFailed ==
  [][\A id \in seen'.failed :
       UploadAnswers(id) =>
         /\ req'[id].pc = "done500" /\ seen'.code = 500
         /\ store'[id].status = "failed"
         /\ store'[id].errorMessage # ""
         /\ id \notin files']_vars

\* C12 as amended: such an upload never answers 200; once it has answered
\* 500 its record is failed with a non-empty errorMessage, unless the owner
\* deleted it or the database rejected the update that marks it (then it is
\* still processing); and its file is off the disk unless an unlink failed.
C12_FailedUnlessDeletedOrRejected ==
  \A id \in seen.failed :
    /\ req[id].pc # "done200"
    /\ req[id].pc = "done500" =>
         /\ \/ store[id].status = "failed" /\ store[id].errorMessage # ""
            \/ store[id].status = "deleted"
            \/ store[id].status = "processing" /\ id \in seen.unmarked
         /\ id \in files => id \in seen.kept

\* a failed analysis has been answered with 500, the record is marked and
\* the file is gone
C12_Witness ==
  \E id \in seen.failed :
    /\ req[id].pc = "done500" /\ seen.code = 500
    /\ store[id].status = "failed" /\ store[id].errorMessage # ""
    /\ id \notin files
    /\ id \notin seen.kept /\ id \notin seen.unmarked

\* C13: after an upload request that had created its record has answered
\* 500, the record, unless its owner deleted it, exists with status
\* processing or failed, never completed.
C13_NoCompletedAfter500 ==
  \A id \in Ids :
    req[id].pc = "done500" =>
      store[id].status \in {"processing", "failed", "deleted"}

\* C14: a POST /resources/upload without a file answers 400, creates no
\* record and leaves the store and the upload directory as they were.
C14_NoFileAnswers400 ==
  [][seen'.op = "uploadNoFile" =>
       /\ seen'.code = 400
       /\ store' = store /\ nextId' = nextId
       /\ files' = files
       /\ req' = req]_vars

\* an upload without a file has been answered while a record and its file
\* exist
C14_Witness ==
  /\ seen.op = "uploadNoFile" /\ seen.code = 400
  /\ \E id \in Ids : Exists(id) /\ id \in files

\* the record id exists and belongs to u
Owns(u, id) == id \in Ids /\ Exists(id) /\ store[id].userId = u

\* C15 as stated, for the DELETE requests the database serves (those not
\* answered 500): a DELETE by the owner removes the record and its file; a
\* DELETE of an id that does not exist or belongs to another user answers
\* 404 and changes no record and no file.
C15_DeleteRemovesOr404 ==
  [][(seen'.op = "delete" /\ seen'.code # 500) =>
       IF Owns(seen'.user, seen'.id)
       THEN store'[seen'.id].status = "deleted" /\ seen'.id \notin files'
       ELSE seen'.code = 404 /\ store' = store /\ files' = files]_vars

\* C15 as amended: a DELETE answers 200, 404 or 500.  200 goes to the owner
\* only: the record is removed, and its file too unless the unlink failed;
\* nothing else changes.  404 goes to a caller who does not own the id, and
\* changes nothing.  500 (the database rejected the lookup or the removal)
\* changes no record; the owner's file may already be unlinked.  A caller
\* who does not own the id gets 404 or 500 and changes nothing.
C15_DeleteRemovesUnlessFault ==
  [][seen'.op = "delete" =>
       LET u == seen'.user
           id == seen'.id
       IN /\ seen'.code \in {200, 404, 500}
          /\ seen'.code = 200 =>
               /\ Owns(u, id)
               /\ store'[id].status = "deleted"
               /\ id \in files' => id \in seen'.kept
               /\ \A other \in Ids \ {id} :
                    store'[other] = store[other] /\ (other \in files' <=> other \in files)
          /\ seen'.code = 404 => ~Owns(u, id)
          /\ seen'.code = 500 => store' = store
          /\ ~Owns(u, id) => store' = store /\ files' = files
          /\ Owns(u, id) => seen'.code # 404 /\ files' \in {files, files \ {id}}]_vars

\* a DELETE of a record that exists, with its file, and belongs to another
\* user has been answered 404
C15_Witness ==
  /\ seen.op = "delete" /\ seen.code = 404
  /\ seen.id \in Ids /\ Exists(seen.id)
  /\ store[seen.id].userId # seen.user
  /\ seen.id \in files

(* ======================= low stock alerts (SpecStock) ================== *)
\* C20: the stock check answers an alert for an item (a scalar inventory
\* field, or an entry of medicines, instruments or other_equipment) exactly
\* when the count of the item is below the threshold, and the alert carries
\* that count: with the threshold 5, saline 3 gives an alert for saline and
\* saline 5 gives none.
C20_AlertIffBelowThreshold ==
  alerts.done =>
    /\ \A f \in ScalarFields :
         /\ (\E a \in alerts.items : a.field = f) <=> stockIn.scalars[f] < Threshold
         /\ \A a \in alerts.items : a.field = f => a.count = stockIn.scalars[f]
    /\ \A f \in ListFields :
         \A j \in 1..Len(InvList(stockIn, f)) :
           /\ (\E a \in alerts.items : a.field = f /\ a.index = j)
                <=> InvList(stockIn, f)[j].count < Threshold
           /\ \A a \in alerts.items :
                (a.field = f /\ a.index = j) =>
                  /\ a.item = InvList(stockIn, f)[j].name
                  /\ a.count = InvList(stockIn, f)[j].count
    /\ \A a \in alerts.items :
         \/ a.field \in ScalarFields
         \/ a.field \in ListFields /\ a.index \in 1..Len(InvList(stockIn, a.field))
    /\ stockIn.scalars["saline"] = 3 => \E a \in alerts.items : a.field = "saline"
    /\ stockIn.scalars["saline"] = 5 => \A a \in alerts.items : a.field # "saline"

\* a check of a view with saline 3 and injections 5 and a medicine counted
\* 15 has answered an alert for saline
C20_Witness ==
  /\ alerts.done
  /\ stockIn.scalars["saline"] = 3 /\ stockIn.scalars["injections"] = 5
  /\ \E j \in 1..Len(stockIn.medicines) : stockIn.medicines[j].count >= 5
  /\ \E a \in alerts.items : a.field = "saline" /\ a.count = 3
  /\ \A a \in alerts.items : a.field \notin {"injections", "medicines"}

(* ===================== the documents at rest (SpecDocs) ================ *)
\* C25: a record has an errorMessage only if its status is failed; a
\* completed record has a payload the schema accepts, its metadata, and no
\* errorMessage.
C25_MessageOnlyWhenFailed ==
  \A id \in Ids :
    /\ store[id].errorMessage # "" => store[id].status = "failed"
    /\ store[id].status = "completed" =>
         /\ store[id].metadata
         /\ ~CastFails(store[id].resourceData)
         /\ store[id].errorMessage = ""

\* a completed record with a roster next to a failed record with a message
C25_Witness ==
  \E id \in Ids : \E other \in Ids :
    /\ store[id].status = "completed" /\ store[id].resourceData.doctors # <<>>
    /\ store[other].status = "failed" /\ store[other].errorMessage # ""

\* the steps of the upload request of record id after the record was saved
UploadStep(id) ==
  \/ ProcessRaises(id)
  \/ \E p \in UploadPayloads : ProcessParsed(id, p)
  \/ \E dbError \in BOOLEAN : UpdateCompleted(id, dbError)
  \/ \E dbError \in BOOLEAN : FetchRespond(id, dbError)
  \/ \E dbError \in BOOLEAN : MarkFailed(id, dbError)
  \/ Cleanup(id)

\* how far an upload request has come
Rank(pc) ==
  CASE pc = "idle" -> 0
    [] pc = "process" -> 1
    [] pc = "update" -> 2
    [] pc = "fetch" -> 3
    [] pc = "markFailed" -> 4
    [] pc = "cleanup" -> 5
    [] OTHER -> 6

\* C27: a record that was deleted is never there again, whatever the upload
\* request that created it still does; and that request goes on to its
\* answer: each of its steps brings it nearer to the answer, and as long as
\* it has not answered one of its steps can be taken.
C27_DeletedWhileProcessing ==
  /\ [][\A id \in Ids :
          /\ store[id].status = "deleted" => store'[id].status = "deleted"
          /\ req'[id] # req[id] => Rank(req'[id].pc) > Rank(req[id].pc)]_vars
  /\ [](\A id \in Ids :
          (store[id].status = "deleted" /\ Rank(req[id].pc) < 6) => ENABLED UploadStep(id))

\* the record is deleted and the request that created it, which was still
\* to write its result when the record went, has answered
C27_Witness ==
  \E id \in Ids :
    /\ store[id].status = "deleted"
    /\ req[id].pc = "done500"
    /\ id \notin files

\* C28: every completed record has its uploaded file on disk.
C28_CompletedHasFile ==
  \A id \in Ids : store[id].status = "completed" => id \in files

(* ====================== concurrent uploads (SpecDocs) ================== *)
\* C19: uploads whose processing interleaves, of one owner or of two, make
\* one record each; a record is written by the steps of the request that
\* created it and by no other (the completed update writes that request's
\* payload, the failed update keeps the payload) until a delete removes it;
\* and a record whose request has answered 200 is completed.
C19_UploadsIndependent ==
  [][\A id \in Ids :
       /\ (store[id].status = "none" /\ store'[id].status # "none") =>
            /\ store'[id].status = "processing"
            /\ req[id].pc = "idle" /\ req'[id].pc = "process"
            /\ \A other \in Ids \ {id} :
                 store'[other] = store[other] /\ req'[other] = req[other]
       /\ (Exists(id) /\ store'[id] # store[id] /\ store'[id].status # "deleted") =>
            /\ req'[id] # req[id]
            /\ \A other \in Ids \ {id} : store'[other] = store[other]
            /\ store'[id].userId = store[id].userId
            /\ \/ /\ req[id].pc = "update"
                  /\ store'[id].status = "completed"
                  /\ store'[id].resourceData = req[id].data
               \/ /\ req[id].pc = "markFailed"
                  /\ store'[id].status = "failed"
                  /\ store'[id].resourceData = store[id].resourceData
       /\ (req'[id].pc = "done200" /\ store'[id].status \in {"processing", "completed", "failed"}) =>
            store'[id].status = "completed"]_vars

\* two uploads of one owner have interleaved: the later one has gone through
\* all its steps and answered 200 while the earlier one, whose record is
\* completed with another payload, has not answered yet
C19_Witness ==
  \E first \in Ids : \E second \in Ids :
    /\ first < second
    /\ store[first].userId = store[second].userId
    /\ store[first].status = "completed" /\ store[second].status = "completed"
    /\ store[first].resourceData # store[second].resourceData
    /\ req[first].pc = "fetch" /\ req[second].pc = "done200"

(* ========================= owner isolation (SpecDocs) ================== *)
\* the query parameters GET /resources is asked with
Limits == {1, 2}
Pages == {1, 2}

\* everything user a can read
Views(a, st) ==
  [aggregated |-> AggregatedData(a, st),
   list |-> [q \in Limits \X Pages |-> GetResources(a, q[1], q[2], st)],
   latest |-> GetLatest(a, st),
   one |-> [id \in Ids |-> GetOne(a, id, st)]]

\* the ids of the records an answer set shows
Shown(v) ==
  (({v.aggregated.resources[i] : i \in 1..Len(v.aggregated.resources)}
      \cup UNION {{v.list[q].resources[i].id : i \in 1..Len(v.list[q].resources)} :
                   q \in Limits \X Pages})
     \cup ({v.latest.id} \cup {v.one[id].id : id \in Ids})) \ {0}

\* a step of a request of user b: b uploads, the upload request of a record
\* of b moves on, or b deletes
ByUser(b) ==
  \/ UploadCreate(b)
  \/ \E id \in Ids : Delete(b, id)
  \/ \E id \in Ids :
       /\ store[id].userId = b
       /\ req[id].pc \notin {"idle", "done200", "done500"}
       /\ req'[id] # req[id]

\* C16: no step of a request of user b changes anything another user a can
\* read (the aggregated snapshot, the list, the latest record, each record
\* by id), nothing a can read shows a record that is not a's, and each
\* record of b is a 404 for a.
C16_OwnerIsolation ==
  [][store' # store =>
       \A b \in Users :
         ByUser(b) =>
           \A a \in Users \ {b} :
             \A v \in {Views(a, store')} :
               /\ v = Views(a, store)
               /\ \A id \in Shown(v) : store'[id].userId = a
               /\ \A id \in Ids : store'[id].userId = b => v.one[id].code = 404]_vars

\* both users have a completed record, and the first user reads records:
\* the snapshot and the latest record show one
C16_Witness ==
  /\ \E id \in Ids : store[id].userId = "u1" /\ store[id].status = "completed"
  /\ \E id \in Ids : store[id].userId = "u2" /\ store[id].status = "completed"
  /\ AggregatedData("u1", store).resources # <<>>
  /\ GetLatest("u1", store).code = 200

(* ======================= the paged list (SpecList) ===================== *)
\* the records of user u that exist, of any status
OwnRecords(u) ==
  {id \in Ids : store[id].userId = u /\ store[id].status \in {"processing", "completed", "failed"}}

\* the place of record id among the records of S, newest first
RankIn(id, S) == Cardinality({other \in S : other >= id})

\* the places of the answers to pages 1..pages that show record id
ShownAt(u, limit, pages, id) ==
  {q \in (1..pages) \X (1..limit) :
     LET rs == GetResources(u, limit, q[1], store).resources
     IN q[2] <= Len(rs) /\ rs[q[2]].id = id}

\* C26: GET /resources with limit >= 1 and page >= 1 answers the records of
\* the caller ranked (page-1)*limit+1 .. page*limit newest first, at most
\* limit of them, each as it is stored; total counts the caller's records
\* of any status, pages = ceil(total/limit), and over the pages 1..pages
\* each of the caller's records is answered exactly once.
C26_PagedListing ==
  listed.asked =>
    LET own == OwnRecords(listed.user)
        rs == listed.out.resources
        pg == listed.out.pagination
        skipped == (listed.page - 1) * listed.limit
    IN /\ pg.total = Cardinality(own)
       /\ pg.page = listed.page /\ pg.limit = listed.limit
       /\ pg.pages * listed.limit >= pg.total
       /\ (pg.pages - 1) * listed.limit < pg.total \/ (pg.pages = 0 /\ pg.total = 0)
       /\ Len(rs) <= listed.limit
       /\ Len(rs) = Cardinality({id \in own : RankIn(id, own) > skipped /\
                                              RankIn(id, own) <= skipped + listed.limit})
       /\ \A i \in 1..Len(rs) :
            /\ rs[i].id \in own
            /\ RankIn(rs[i].id, own) = skipped + i
            /\ rs[i].doc = store[rs[i].id]
       /\ \A id \in own : Cardinality(ShownAt(listed.user, listed.limit, pg.pages, id)) = 1

\* the second page of two records asked one at a time shows the older one,
\* a failed record with its message
C26_Witness ==
  /\ listed.asked /\ listed.limit = 1 /\ listed.page = 2
  /\ listed.out.pagination.total = 2 /\ listed.out.pagination.pages = 2
  /\ Len(listed.out.resources) = 1
  /\ listed.out.resources[1].id = 1
  /\ listed.out.resources[1].doc.status = "failed"
  /\ listed.out.resources[1].doc.errorMessage # ""

(* ==================== the Allocation Ledger (SpecAlloc) ================ *)
\* C21: a create whose patient name is empty or missing is answered with a
\* ValidationError, stores no AllocationRecord, triggers no stock check and
\* changes nothing else; the form of a document with an empty or missing
\* patient name never sends the create request: its submit shows the toast
\* and leaves the ledger alone.
C21_NoNameNoAllocation ==
  [][/\ (allocs' # allocs /\ allocs'.op = "create" /\ ~Present(allocs'.name)) =>
          /\ allocs'.error = "ValidationError"
          /\ allocs'.recs = allocs.recs
          /\ allocs'.checks = allocs.checks
          /\ UNCHANGED coreVars
     /\ (form.name.k # "str" \/ form.name.s = <<>>) =>
          /\ form'.request = "none"
          /\ form' # form =>
               /\ form'.toast = "Patient name is required" /\ ~form'.loading
               /\ allocs' = allocs]_vars

\* the form of a document without a patient name was submitted, and a
\* caller of the API has asked to create an allocation with an empty name
\* after one was stored
C21_Witness ==
  /\ form.name \in {NoName, Name(<<>>)}
  /\ form.toast = "Patient name is required"
  /\ allocs.op = "create" /\ allocs.name = Name(<<>>) /\ allocs.error = "ValidationError"
  /\ Len(allocs.recs) = 1 /\ allocs.checks = 1

\* what every step keeps of the life of an AllocationRecord: a status is
\* one of the four, a record is created as allocated by a create, records
\* are never removed, and a deallocate that succeeds sets one record to
\* deallocated and no other
StatusSteps ==
  /\ \A id \in 1..Len(allocs'.recs) : allocs'.recs[id].status \in AllocStatuses
  /\ Len(allocs'.recs) >= Len(allocs.recs)
  /\ Len(allocs'.recs) > Len(allocs.recs) =>
       /\ allocs'.op = "create" /\ allocs'.error = ""
       /\ Len(allocs'.recs) = Len(allocs.recs) + 1
       /\ allocs'.recs[Len(allocs'.recs)].status = "allocated"
       /\ \A id \in 1..Len(allocs.recs) : allocs'.recs[id] = allocs.recs[id]
  /\ (allocs' # allocs /\ allocs'.op = "deallocate" /\ allocs'.error = "") =>
       \E id \in 1..Len(allocs.recs) :
         allocs'.recs = [allocs.recs EXCEPT ![id].status = "deallocated"]

Returned == poll'.inFlight = poll.inFlight - 1

\* C29: after a successful upload the interval is cleared by the first
\* callback that returns with a successful fetch or with more than 30
\* attempts made, and by nothing else; that step sets uploading to false,
\* and no attempt is made once the interval is cleared; an upload that
\* fails sets uploading to false. While the interval runs past 30 attempts
\* a callback that will clear it is under way; the interval is always
\* cleared in the end, and uploading always becomes false.
C29_PollingTerminates ==
  /\ [][/\ Returned =>
             IF poll'.fetched = "ok" \/ poll.attempts > 30
             THEN ~poll'.interval /\ ~poll'.uploading
             ELSE poll'.interval = poll.interval /\ poll'.uploading = poll.uploading
        /\ (poll.interval /\ ~poll'.interval) => Returned
        /\ poll'.attempts > poll.attempts =>
             poll.interval /\ poll'.attempts = poll.attempts + 1
        /\ (poll.upload = "sent" /\ poll'.upload = "none" /\ ~poll'.interval) =>
             ~poll'.uploading]_vars
  /\ [](poll.interval /\ poll.attempts > 30 => poll.inFlight > 0)
  /\ (poll.interval ~> ~poll.interval)
  /\ (poll.uploading ~> ~poll.uploading)

\* every fetch of the loop failed: the callback of the 31st attempt cleared
\* the interval and set uploading to false
C29_Witness ==
  /\ poll.attempts = 31 /\ poll.fetched = "failed"
  /\ ~poll.interval /\ ~poll.uploading /\ poll.inFlight = 0
  /\ poll.selectedFile

(* ======================= the middleware (SpecMw) ======================= *)
\* the path is a public route as the list reads: the home page, or one of
\* the other routes or a path under it
ListedPublic(path) ==
  \/ path = Root
  \/ \E route \in PublicRoutes \ {Root} : path = route \/ StartsWith(path, route \o Root)

\* C30: the cookie-based middleware redirects a request without the
\* authToken cookie whose path is not a public route to /sign-in with
\* redirect_url set, and does not pass it on; /resources is such a path.
C30_ProtectedPathRedirected ==
  (mw.asked /\ ~mw.dev /\ ~mw.cookie /\ ~ListedPublic(mw.path)) =>
    /\ mw.out = "redirect"
    /\ mw.location = SignInPath
    /\ mw.redirectUrl = mw.path

====
